---- MODULE Spec2Model ----
(***************************************************************************)
(* Model of the callable invocation adapter of src/src/aws_lambda.ts:      *)
(* onCallGenkit's buffered handler and its streaming handler, the request  *)
(* parser, the CORS header builder, the error mapping and the context      *)
(* provider combinators.                                                   *)
(*                                                                         *)
(* One invocation is followed from the event to its response.  Strings the *)
(* code writes (bodies, SSE records) are modelled as strings; JSON values  *)
(* are records [t, s, f]: t the type, s the text of a string, f the        *)
(* ordered <<key, value>> pairs of an object.                              *)
(***************************************************************************)
EXTENDS Integers, Sequences, FiniteSets, TLC

(* ------------------------------ bounds --------------------------------- *)

\* the longest chunk sequence an Action produces before it ends or fails
MaxChunks == 2

\* the longest provider list given to anyOf / allOf
MaxProviders == 2

\* the longest list of allowed origins in a CORS configuration
MaxOrigins == 2

(* --------------------------- JavaScript values -------------------------- *)

\* the JavaScript value undefined, where a string is expected
Undefined == "<undefined>"

\* JavaScript truthiness of a string-or-undefined value
Truthy(s) == s # Undefined /\ s # ""

\* a || b on string-or-undefined values
OrElse(a, b) == IF Truthy(a) THEN a ELSE b

\* obj[name] on a Record<string, string>
Get(headers, name) == IF name \in DOMAIN headers THEN headers[name] ELSE Undefined

\* { ...a, ...b }
Spread(a, b) ==
  [k \in DOMAIN a \cup DOMAIN b |-> IF k \in DOMAIN b THEN b[k] ELSE a[k]]

NoFields == [k \in {} |-> ""]

JStr(s) == [t |-> "str", s |-> s, f |-> <<>>]
JObj(pairs) == [t |-> "obj", s |-> "", f |-> pairs]
JNull == [t |-> "null", s |-> "", f |-> <<>>]
\* undefined where a JSON value is expected
JUndefined == [t |-> "undefined", s |-> "", f |-> <<>>]
\* a value JSON.stringify rejects with a TypeError
JBigInt == [t |-> "bigint", s |-> "1", f |-> <<>>]

\* key in obj
HasKey(v, key) == v.t = "obj" /\ \E i \in 1..Len(v.f) : v.f[i][1] = key

\* obj[key]
Field(v, key) == v.f[CHOOSE i \in 1..Len(v.f) : v.f[i][1] = key][2]

RECURSIVE CanStringify(_)
CanStringify(v) ==
  CASE v.t = "bigint" -> FALSE
    [] v.t = "obj" -> \A i \in 1..Len(v.f) : CanStringify(v.f[i][2])
    [] OTHER -> TRUE

RECURSIVE JSONstringify(_)
RECURSIVE StringifyPairs(_, _)
StringifyPairs(pairs, i) ==
  IF i > Len(pairs) THEN ""
  ELSE (IF i > 1 THEN "," ELSE "")
         \o "\"" \o pairs[i][1] \o "\":" \o JSONstringify(pairs[i][2])
         \o StringifyPairs(pairs, i + 1)

\* JSON.stringify(v) for a value it accepts
JSONstringify(v) ==
  CASE v.t = "str" -> "\"" \o v.s \o "\""
    [] v.t = "null" -> "null"
    [] v.t = "obj" -> "{" \o StringifyPairs(v.f, 1) \o "}"
    [] OTHER -> Undefined

\* Array.prototype.join(", ")
RECURSIVE JoinFrom(_, _)
JoinFrom(list, i) ==
  IF i > Len(list) THEN ""
  ELSE (IF i > 1 THEN ", " ELSE "") \o list[i] \o JoinFrom(list, i + 1)

Join(list) == JoinFrom(list, 1)

(* ------------------------------- errors -------------------------------- *)

\* a thrown value: isError is `instanceof Error`, status the taxonomy code
\* of a UserFacingError (Undefined for a plain Error)
Thrown(isError, status, message) ==
  [isError |-> isError, status |-> status, message |-> message,
   stack |-> "", details |-> JUndefined]

\* the same error thrown from another place: its stack differs
WithStack(error, stack) == [error EXCEPT !.stack = stack]

\* new UserFacingError(status, message, details)
WithDetails(error, details) == [error EXCEPT !.details = details]

UserFacingError(status, message) == Thrown(TRUE, status, message)

PlainError(message) == Thrown(TRUE, Undefined, message)

\* what JSON.stringify throws on a BigInt
SerializeError == PlainError("Do not know how to serialize a BigInt")

\* genkit/context getHttpStatus
getHttpStatus(error) ==
  CASE error.status = "INVALID_ARGUMENT" -> 400
    [] error.status = "UNAUTHENTICATED" -> 401
    [] error.status = "PERMISSION_DENIED" -> 403
    [] error.status = "NOT_FOUND" -> 404
    [] OTHER -> 500

\* an error document that carries the message of every error
getCallableJSON_LeaksMessage(error) ==
  JObj(<< <<"error", JObj(<< <<"status", JStr(IF error.status # Undefined
                                              THEN error.status ELSE "INTERNAL")>>,
                            <<"message", JStr(error.message)>> >>)>> >>)

\* genkit/context getCallableJSON: the FlowErrorResponse document
getCallableJSON(error) ==
  IF error.status # Undefined
  THEN JObj(<< <<"error",
                 JObj(<< <<"status", JStr(error.status)>>,
                         <<"message", JStr(error.message)>> >>
                      \o IF error.details # JUndefined
                         THEN << <<"details", error.details>> >> ELSE <<>>)>> >>)
  ELSE JObj(<< <<"error", JObj(<< <<"status", JStr("INTERNAL")>>,
                                 <<"message", JStr("Internal Error")>> >>)>> >>)

(* -------------------------------- CORS --------------------------------- *)

\* an optional string[] option: left out, or the list given
Absent == [defined |-> FALSE, items |-> <<>>]
Items(list) == [defined |-> TRUE, items |-> list]

\* opts.maxAge ?? 86400
DefaultMaxAge == 86400

\* an optional number option: left out, or the number given
NoNumber == [defined |-> FALSE, n |-> 0]
Number(n) == [defined |-> TRUE, n |-> n]

\* a CorsOptions | boolean | undefined value; the options other than origin
\* are left out
CorsValue(kind, originIsArray, originList, originString) ==
  [kind |-> kind, originIsArray |-> originIsArray,
   originList |-> originList, originString |-> originString,
   methods |-> Absent, allowedHeaders |-> Absent, exposedHeaders |-> Absent,
   credentials |-> FALSE, maxAge |-> NoNumber]

CorsUndefined == CorsValue("undefined", FALSE, <<>>, Undefined)
CorsTrue == CorsValue("true", FALSE, <<>>, Undefined)
CorsFalse == CorsValue("false", FALSE, <<>>, Undefined)
CorsAllowList == CorsValue("object", TRUE, <<"https://a">>, Undefined)

InList(list, x) == \E i \in 1..Len(list) : list[i] = x

\* a header map of one header
Header(name, value) == [k \in {name} |-> value]

\* a list policy that echoes whatever origin the request names
AllowOrigin_EchoAny(opts, requestOrigin) ==
  IF opts.originIsArray
  THEN IF Truthy(requestOrigin)
       THEN Header("Access-Control-Allow-Origin", requestOrigin)
       ELSE NoFields
  ELSE Header("Access-Control-Allow-Origin",
              IF opts.originString # Undefined THEN opts.originString ELSE "*")

\* // Handle origin: the Access-Control-Allow-Origin header, or none
AllowOrigin(opts, requestOrigin) ==
  IF opts.originIsArray
  THEN IF Truthy(requestOrigin) /\ InList(opts.originList, requestOrigin)
       THEN Header("Access-Control-Allow-Origin", requestOrigin)
       ELSE NoFields
  ELSE Header("Access-Control-Allow-Origin",
              IF opts.originString # Undefined THEN opts.originString ELSE "*")

\* const headers = { "Content-Type": "application/json" }
CorsBase == Header("Content-Type", "application/json")

\* opts.maxAge || 86400: a max-age of 0 gives way to the default too
MaxAge_OrDefault(opts) ==
  IF opts.maxAge.defined /\ opts.maxAge.n # 0 THEN opts.maxAge.n ELSE DefaultMaxAge

\* const maxAge = opts.maxAge ?? 86400
MaxAge(opts) == IF opts.maxAge.defined THEN opts.maxAge.n ELSE DefaultMaxAge

buildCorsHeaders(corsOptions, requestOrigin) ==
  IF corsOptions.kind = "false" THEN NoFields
  ELSE
    LET opts == IF corsOptions.kind = "object" THEN corsOptions
                ELSE CorsValue("object", FALSE, <<>>, Undefined)
        methods == IF opts.methods.defined THEN opts.methods.items
                   ELSE <<"POST", "OPTIONS">>
        allowedHeaders == IF opts.allowedHeaders.defined THEN opts.allowedHeaders.items
                          ELSE <<"Content-Type", "Authorization">>
        exposed == IF opts.exposedHeaders.defined /\ Len(opts.exposedHeaders.items) > 0
                   THEN Header("Access-Control-Expose-Headers",
                               Join(opts.exposedHeaders.items))
                   ELSE NoFields
        credentials == IF opts.credentials
                       THEN Header("Access-Control-Allow-Credentials", "true")
                       ELSE NoFields
        maxAge == MaxAge(opts)
    IN Spread(Spread(Spread(Spread(Spread(Spread(CorsBase,
         AllowOrigin(opts, requestOrigin)),
         Header("Access-Control-Allow-Methods", Join(methods))),
         Header("Access-Control-Allow-Headers", Join(allowedHeaders))),
         exposed),
         credentials),
         Header("Access-Control-Max-Age", ToString(maxAge)))

(* the variant of src/unnamed/part_001 *)

\* // Handle origin, as the variant does it: a request origin that is not in
\* the list gets the first origin of the list
AllowOriginOfVariant(opts, requestOrigin) ==
  IF opts.originIsArray
  THEN IF Truthy(requestOrigin) /\ InList(opts.originList, requestOrigin)
       THEN Header("Access-Control-Allow-Origin", requestOrigin)
       ELSE IF Len(opts.originList) > 0
            THEN Header("Access-Control-Allow-Origin", opts.originList[1])
            ELSE NoFields
  ELSE Header("Access-Control-Allow-Origin",
              IF opts.originString # Undefined THEN opts.originString ELSE "*")

buildCorsHeadersOfVariant(corsOptions, requestOrigin) ==
  IF corsOptions.kind = "false" THEN NoFields
  ELSE
    LET opts == IF corsOptions.kind = "object" THEN corsOptions
                ELSE CorsValue("object", FALSE, <<>>, Undefined)
        methods == IF opts.methods.defined THEN opts.methods.items
                   ELSE <<"POST", "OPTIONS">>
        allowedHeaders == IF opts.allowedHeaders.defined THEN opts.allowedHeaders.items
                          ELSE <<"Content-Type", "Authorization">>
        exposed == IF opts.exposedHeaders.defined /\ Len(opts.exposedHeaders.items) > 0
                   THEN Header("Access-Control-Expose-Headers",
                               Join(opts.exposedHeaders.items))
                   ELSE NoFields
        credentials == IF opts.credentials
                       THEN Header("Access-Control-Allow-Credentials", "true")
                       ELSE NoFields
        maxAge == IF opts.maxAge.defined THEN opts.maxAge.n ELSE DefaultMaxAge
    IN Spread(Spread(Spread(Spread(Spread(Spread(CorsBase,
         AllowOriginOfVariant(opts, requestOrigin)),
         Header("Access-Control-Allow-Methods", Join(methods))),
         Header("Access-Control-Allow-Headers", Join(allowedHeaders))),
         exposed),
         credentials),
         Header("Access-Control-Max-Age", ToString(maxAge)))

getRequestOrigin(ev) == OrElse(Get(ev.headers, "origin"), Get(ev.headers, "Origin"))

(* ---------------------------- request body ----------------------------- *)

\* Buffer.from(body, "base64").toString("utf-8") on the bodies of the model
Base64Decode(body) ==
  CASE body = "e2JhZA==" -> "{bad"
    [] body = "ImEi" -> "\"a\""
    [] OTHER -> ""

\* { data: v }, the wrapped-envelope form of v
Wrap(v) == JObj(<< <<"data", v>> >>)

\* the inputs a client sends: a string, null, an empty object, and objects
\* that have a key data themselves
InputValues ==
  LET plain == {JStr("a"), JNull, JObj(<<>>)}
  IN plain \cup { Wrap(v) : v \in plain }

\* the JSON values a request body of the model denotes
JsonValues == InputValues \cup { Wrap(v) : v \in InputValues }

\* JSON.parse on the texts of the model, the inverse of JSON.stringify on
\* JsonValues: ok = FALSE is a SyntaxError
JSONparse(text) ==
  IF \E v \in JsonValues : JSONstringify(v) = text
  THEN [ok |-> TRUE, value |-> CHOOSE v \in JsonValues : JSONstringify(v) = text]
  ELSE [ok |-> FALSE, value |-> JNull]

\* parseRequestBody taking a body that is not JSON for an empty input
parseRequestBody_Lenient(ev) ==
  IF ~Truthy(ev.body)
  THEN [ok |-> TRUE, value |-> JObj(<<>>), error |-> PlainError("")]
  ELSE
    LET body == IF ev.isBase64Encoded THEN Base64Decode(ev.body) ELSE ev.body
        r == JSONparse(body)
    IN IF r.ok
       THEN IF r.value.t # "null" /\ HasKey(r.value, "data")
            THEN [ok |-> TRUE, value |-> Field(r.value, "data"), error |-> PlainError("")]
            ELSE [ok |-> TRUE, value |-> r.value, error |-> PlainError("")]
       ELSE [ok |-> TRUE, value |-> JObj(<<>>), error |-> PlainError("")]

\* parseRequestBody returning what JSON.parse gave, without unwrapping
parseRequestBody_NoUnwrap(ev) ==
  IF ~Truthy(ev.body)
  THEN [ok |-> TRUE, value |-> JObj(<<>>), error |-> PlainError("")]
  ELSE
    LET body == IF ev.isBase64Encoded THEN Base64Decode(ev.body) ELSE ev.body
        r == JSONparse(body)
    IN IF r.ok
       THEN [ok |-> TRUE, value |-> r.value, error |-> PlainError("")]
       ELSE [ok |-> FALSE, value |-> JNull,
             error |-> UserFacingError("INVALID_ARGUMENT", "Invalid JSON in request body")]

\* parseRequestBody handing an absent or empty body to JSON.parse
parseRequestBody_EmptyFails(ev) ==
  LET text == IF ev.body = Undefined THEN "" ELSE ev.body
      body == IF ev.isBase64Encoded THEN Base64Decode(text) ELSE text
      r == JSONparse(body)
  IN IF r.ok
     THEN IF r.value.t # "null" /\ HasKey(r.value, "data")
          THEN [ok |-> TRUE, value |-> Field(r.value, "data"), error |-> PlainError("")]
          ELSE [ok |-> TRUE, value |-> r.value, error |-> PlainError("")]
     ELSE [ok |-> FALSE, value |-> JNull,
           error |-> UserFacingError("INVALID_ARGUMENT", "Invalid JSON in request body")]

\* parseRequestBody: ok = FALSE is the UserFacingError it throws
parseRequestBody(ev) ==
  IF ~Truthy(ev.body)
  THEN [ok |-> TRUE, value |-> JObj(<<>>), error |-> PlainError("")]
  ELSE
    LET body == IF ev.isBase64Encoded THEN Base64Decode(ev.body) ELSE ev.body
        r == JSONparse(body)
    IN IF r.ok
       THEN IF r.value.t # "null" /\ HasKey(r.value, "data")
            THEN [ok |-> TRUE, value |-> Field(r.value, "data"), error |-> PlainError("")]
            ELSE [ok |-> TRUE, value |-> r.value, error |-> PlainError("")]
       ELSE [ok |-> FALSE, value |-> JNull,
             error |-> UserFacingError("INVALID_ARGUMENT", "Invalid JSON in request body")]

(* ------------------------- context providers --------------------------- *)

ProviderNames == <<"p1", "p2", "p3", "p4">>

\* a ContextProvider value: a caller-supplied function ("custom", named by
\* id) or a combinator over the providers ps; "undefined" is no provider
Provider(kind, id, ps) == [kind |-> kind, id |-> id, ps |-> ps]

NoProvider == Provider("undefined", 0, <<>>)
Custom(i) == Provider("custom", i, <<>>)

\* what a call of a provider gives: the context it resolves to, or the
\* value it throws
Returns(context) == [ok |-> TRUE, context |-> context, error |-> PlainError("")]
Throws(error) == [ok |-> FALSE, context |-> NoFields, error |-> error]

AuthContext(i) == [k \in {"auth"} |-> [user |-> ProviderNames[i]]]
SpoofContext == [k \in {"lambda"} |-> [spoofed |-> TRUE]]

\* the behaviours of the custom provider i on a request
CustomOutcomes(i) ==
  { Returns(AuthContext(i)), Returns(SpoofContext),
    Throws(UserFacingError(IF i % 2 = 1 THEN "UNAUTHENTICATED" ELSE "PERMISSION_DENIED",
                           ProviderNames[i])) }

\* error instanceof Error ? error : new Error(String(error))
AsError(error) == IF error.isError THEN error ELSE PlainError(error.message)

RECURSIVE CallProvider(_, _, _)
RECURSIVE allOfFrom(_, _, _, _, _)
RECURSIVE anyOfFrom(_, _, _, _, _, _)

\* allOf going on after a failure: the later providers are still called
allOfFrom_Continue(ps, i, mergedContext, out, trace) ==
  IF i > Len(ps)
  THEN [ok |-> TRUE, context |-> mergedContext, error |-> PlainError(""), trace |-> trace]
  ELSE LET r == CallProvider(ps[i], out, trace)
       IN IF r.ok
          THEN allOfFrom(ps, i + 1, Spread(mergedContext, r.context), out, r.trace)
          ELSE [r EXCEPT !.trace = allOfFrom(ps, i + 1, mergedContext, out, r.trace).trace]

\* allOf merging the other way round: the earlier provider's key wins
allOfFrom_FirstWins(ps, i, mergedContext, out, trace) ==
  IF i > Len(ps)
  THEN [ok |-> TRUE, context |-> mergedContext, error |-> PlainError(""), trace |-> trace]
  ELSE LET r == CallProvider(ps[i], out, trace)
       IN IF r.ok
          THEN allOfFrom(ps, i + 1, Spread(r.context, mergedContext), out, r.trace)
          ELSE r

\* the loop of allOf from provider i on, mergedContext so far; trace logs
\* the calls and settlements of the custom providers so far
allOfFrom(ps, i, mergedContext, out, trace) ==
  IF i > Len(ps)
  THEN [ok |-> TRUE, context |-> mergedContext, error |-> PlainError(""), trace |-> trace]
  ELSE LET r == CallProvider(ps[i], out, trace)
       IN IF r.ok
          THEN allOfFrom(ps, i + 1, Spread(mergedContext, r.context), out, r.trace)
          ELSE r

\* anyOf without the return in its loop: a success does not end the loop
anyOfFrom_NoReturn(ps, i, hasLast, lastError, out, trace) ==
  IF i > Len(ps)
  THEN [ok |-> FALSE, context |-> NoFields,
        error |-> IF hasLast THEN lastError
                  ELSE UserFacingError("UNAUTHENTICATED", "Unauthorized"),
        trace |-> trace]
  ELSE LET r == CallProvider(ps[i], out, trace)
       IN IF r.ok
          THEN IF i = Len(ps) THEN r
               ELSE anyOfFrom(ps, i + 1, hasLast, lastError, out, r.trace)
          ELSE anyOfFrom(ps, i + 1, TRUE, AsError(r.error), out, r.trace)

\* anyOf keeping the first error instead of the last
anyOfFrom_FirstError(ps, i, hasLast, lastError, out, trace) ==
  IF i > Len(ps)
  THEN [ok |-> FALSE, context |-> NoFields,
        error |-> IF hasLast THEN lastError
                  ELSE UserFacingError("UNAUTHENTICATED", "Unauthorized"),
        trace |-> trace]
  ELSE LET r == CallProvider(ps[i], out, trace)
       IN IF r.ok
          THEN r
          ELSE anyOfFrom(ps, i + 1, TRUE,
                         IF hasLast THEN lastError ELSE AsError(r.error), out, r.trace)

\* the loop of anyOf from provider i on; hasLast is lastError !== undefined
anyOfFrom(ps, i, hasLast, lastError, out, trace) ==
  IF i > Len(ps)
  THEN [ok |-> FALSE, context |-> NoFields,
        error |-> IF hasLast THEN lastError
                  ELSE UserFacingError("UNAUTHENTICATED", "Unauthorized"),
        trace |-> trace]
  ELSE LET r == CallProvider(ps[i], out, trace)
       IN IF r.ok
          THEN r
          ELSE anyOfFrom(ps, i + 1, TRUE, AsError(r.error), out, r.trace)

allOf(ps, out, trace) == allOfFrom(ps, 1, NoFields, out, trace)

\* an anyOf that lets the request through when it has no providers to ask
anyOf_EmptyAllows(ps, out, trace) ==
  IF ps = <<>>
  THEN [ok |-> TRUE, context |-> NoFields, error |-> PlainError(""), trace |-> trace]
  ELSE anyOfFrom(ps, 1, FALSE, PlainError(""), out, trace)

\* an anyOf that hides the providers' errors behind an error of its own
anyOf_OwnError(ps, out, trace) ==
  LET r == anyOfFrom(ps, 1, FALSE, PlainError(""), out, trace)
  IN IF r.ok THEN r
     ELSE [r EXCEPT !.error = UserFacingError("UNAUTHENTICATED", "Unauthorized")]

anyOf(ps, out, trace) == anyOfFrom(ps, 1, FALSE, PlainError(""), out, trace)

\* what the evaluation logs about custom provider id: it was called, it settled
ProviderEvent(kind, id) == [kind |-> kind, id |-> id]

\* the custom providers called, in call order
Started(trace) ==
  LET starts == SelectSeq(trace, LAMBDA e : e.kind = "start")
  IN [k \in 1..Len(starts) |-> starts[k].id]

\* provider(request) without await: the loop goes on while the promise is
\* pending, and the promise settles after the next provider was called
Await_Pending(trace, id) ==
  IF trace # <<>> /\ trace[Len(trace)].kind = "start"
  THEN trace \o <<ProviderEvent("start", id),
                  ProviderEvent("settle", trace[Len(trace)].id),
                  ProviderEvent("settle", id)>>
  ELSE Append(trace, ProviderEvent("start", id))

\* await provider(request): the provider is called and the loop is suspended
\* until its promise settles
Await(trace, id) ==
  trace \o <<ProviderEvent("start", id), ProviderEvent("settle", id)>>

\* await provider(request), out[i] being the behaviour of custom provider i
CallProvider(p, out, trace) ==
  CASE p.kind = "custom" ->
         [ok |-> out[p.id].ok, context |-> out[p.id].context,
          error |-> out[p.id].error, trace |-> Await(trace, p.id)]
    [] p.kind = "allOf" -> allOf(p.ps, out, trace)
    [] OTHER -> anyOf(p.ps, out, trace)

\* <<Custom(1), ..., Custom(n)>>
CustomList(n) == [i \in 1..n |-> Custom(i)]

\* the custom providers a provider value mentions
RECURSIVE Leaves(_)
Leaves(p) ==
  IF p.kind = "custom" THEN {p.id}
  ELSE UNION { Leaves(p.ps[i]) : i \in 1..Len(p.ps) }

ProviderConfigs ==
  {NoProvider} \cup {Custom(1)}
    \cup { Provider("anyOf", 0, CustomList(n)) : n \in 0..MaxProviders }
    \cup { Provider("allOf", 0, CustomList(n)) : n \in 0..MaxProviders }

(* ---------------------- options, events, Actions ----------------------- *)

\* opts.onError: absent, returning { statusCode, message }, or throwing
OnErrorValue(kind, statusCode, message) ==
  [kind |-> kind, statusCode |-> statusCode, message |-> message]

OnErrorUndefined == OnErrorValue("undefined", 0, "")
OnErrorReturns == OnErrorValue("returns", 418, "custom")
OnErrorThrows == OnErrorValue("throws", 0, "handler failed")

\* the LambdaOptions the handler is built with
OptionSets ==
  [streaming : BOOLEAN,
   cors : {CorsUndefined, CorsAllowList},
   contextProvider : ProviderConfigs,
   onError : {OnErrorUndefined, OnErrorReturns, OnErrorThrows}]

HeaderMaps ==
  { NoFields,
    [k \in {"accept"} |-> "text/event-stream"],
    [k \in {"Accept"} |-> "text/event-stream"],
    [k \in {"accept"} |-> "application/json"],
    [k \in {"origin", "accept"} |->
       IF k = "origin" THEN "https://a" ELSE "text/event-stream"] }

\* event.httpMethod (buffered handler), event.requestContext.http.method
\* (streaming handler)
Methods == {"POST", "OPTIONS", Undefined}

PlainBodies == {Undefined, "", "\"a\"", "{\"data\":\"a\"}", "{bad"}
Base64Bodies == {"e2JhZA=="}

Events ==
  [method : Methods, headers : HeaderMaps, body : PlainBodies,
   isBase64Encoded : {FALSE}]
    \cup [method : Methods, headers : HeaderMaps, body : Base64Bodies,
          isBase64Encoded : {TRUE}]

\* the Lambda context object of the invocation
LambdaContexts == {[functionName |-> "fn", awsRequestId |-> "req-1"]}

\* what the flow streams and returns, and what it throws
Chunks == {JStr("a"), JStr("b")}
Results == {JObj(<< <<"joke", JStr("ab")>> >>), JBigInt}
FlowErrors == {PlainError("boom"), UserFacingError("NOT_FOUND", "no such joke")}

(* ------------------------------- state --------------------------------- *)

VARIABLES
  opts,           \* the options onCallGenkit was called with
  pc,             \* where the invocation stands
  event,          \* the event of the invocation
  lambdaContext,  \* the Lambda context of the invocation
  corsHeaders,    \* const corsHeaders
  input,          \* const input
  actionContext,  \* let actionContext
  caught,         \* the error bound by catch (error)
  calls,          \* the calls made so far, in order
  pOut,           \* how each custom provider behaves on this request
  pTrace,         \* the custom providers called, in call order
  pResult,        \* what await opts.contextProvider(requestData) gave
  requestData,    \* const requestData, what the context provider is called with
  passedContext,  \* the context option given to flow.run / flow.stream
  produced,       \* the chunks the flow's stream has yielded
  flowResult,     \* what the flow returned
  response,       \* the APIGatewayProxyResult the buffered handler returns
  preludes,       \* the metadata given to HttpResponseStream.from, in order
  written,        \* the strings written to the response stream, in order
  ended,          \* how often the response stream was ended
  escaped,        \* the error the handler's promise rejects with
  transport,      \* the response stream's transport: writes flushed, client connected
  suspended       \* the locals of the other invocation, suspended at an await

vars == <<opts, pc, event, lambdaContext, corsHeaders, input, actionContext,
          caught, calls, pOut, pTrace, pResult, requestData, passedContext,
          produced, flowResult, response, preludes, written, ended, escaped,
          transport, suspended>>

NoResponse == [statusCode |-> 0, headers |-> NoFields, body |-> ""]
NoError == Thrown(FALSE, Undefined, "")
NoEvent == [method |-> Undefined, headers |-> NoFields, body |-> Undefined,
            isBase64Encoded |-> FALSE]
NoRequest == [method |-> Undefined, headers |-> NoFields, input |-> JNull]
NoProviderResult ==
  [ok |-> TRUE, context |-> NoFields, error |-> PlainError(""), trace |-> <<>>]

\* a transport that has flushed nothing yet, its client connected
NoTransport == [flushed |-> 0, connected |-> TRUE]

\* the locals of an invocation that has not started
IdleLocals ==
  [pc |-> "idle", event |-> NoEvent,
   lambdaContext |-> [functionName |-> "", awsRequestId |-> ""],
   corsHeaders |-> NoFields, input |-> JNull, actionContext |-> NoFields,
   caught |-> NoError, calls |-> <<>>, pOut |-> <<>>, pTrace |-> <<>>,
   pResult |-> NoProviderResult, requestData |-> NoRequest,
   passedContext |-> NoFields, produced |-> <<>>,
   flowResult |-> JNull, response |-> NoResponse, preludes |-> <<>>,
   written |-> <<>>, ended |-> 0, escaped |-> NoError, transport |-> NoTransport]

\* nothing has happened yet in the invocation
Idle ==
  /\ pc = "idle"
  /\ lambdaContext = [functionName |-> "", awsRequestId |-> ""]
  /\ corsHeaders = NoFields
  /\ input = JNull
  /\ actionContext = NoFields
  /\ caught = NoError
  /\ calls = <<>>
  /\ pOut = <<>>
  /\ pTrace = <<>>
  /\ pResult = NoProviderResult
  /\ requestData = NoRequest
  /\ passedContext = NoFields
  /\ produced = <<>>
  /\ flowResult = JNull
  /\ response = NoResponse
  /\ preludes = <<>>
  /\ written = <<>>
  /\ ended = 0
  /\ escaped = NoError
  /\ transport = NoTransport
  /\ suspended = IdleLocals

Init ==
  /\ opts \in OptionSets
  /\ event = NoEvent
  /\ Idle

(* ------------------------------ handlers ------------------------------- *)

\* the method the handler tests for the preflight: event.httpMethod in the
\* buffered handler, event.requestContext?.http?.method || "POST" in the
\* streaming handler
RequestMethod(streaming, ev) ==
  IF streaming THEN OrElse(ev.method, "POST") ELSE ev.method

\* the preflight test of the buffered handler used in both handlers
IsPreflight_BufferedOnly(streaming, ev) ==
  ~streaming /\ RequestMethod(streaming, ev) = "OPTIONS"

IsPreflight(streaming, ev) == RequestMethod(streaming, ev) = "OPTIONS"

\* const lambdaActionContext
LambdaActionContext(ev, ctx) ==
  [k \in {"lambda"} |->
     [event |-> [requestContext |-> [method |-> ev.method], headers |-> ev.headers],
      context |-> [functionName |-> ctx.functionName,
                   awsRequestId |-> ctx.awsRequestId]]]

\* actionContext = { ...lambdaActionContext, ...providerContext }
MergeContext(lambdaActionContext, providerContext) ==
  Spread(lambdaActionContext, providerContext)

\* acceptHeader.includes("text/event-stream") on the Accept values of the model
IncludesEventStream(acceptHeader) == acceptHeader = "text/event-stream"

\* a check of the lower-case header name only
clientWantsStreaming_LowerCaseOnly(ev) ==
  IncludesEventStream(OrElse(Get(ev.headers, "accept"), ""))

clientWantsStreaming(ev) ==
  IncludesEventStream(
    OrElse(OrElse(Get(ev.headers, "accept"), Get(ev.headers, "Accept")), ""))

\* an event ended by a single newline
SseEvent_OneNewline(json) == "data: " \o json \o "\n"

\* `data: ${json}\n\n`
SseEvent(json) == "data: " \o json \o "\n\n"

MessageDoc(chunk) == JObj(<< <<"message", chunk>> >>)
ResultDoc(result) == JObj(<< <<"result", result>> >>)

\* { error: { status: "INTERNAL", message: customError.message } }
CustomErrorDoc(customError) ==
  JObj(<< <<"error", JObj(<< <<"status", JStr("INTERNAL")>>,
                            <<"message", JStr(customError.message)>> >>)>> >>)

\* the metadata of the event stream
SsePrelude(cors) ==
  [statusCode |-> 200,
   headers |-> Spread(cors,
     [k \in {"Content-Type", "Cache-Control", "Connection"} |->
        CASE k = "Content-Type" -> "text/event-stream"
          [] k = "Cache-Control" -> "no-cache"
          [] OTHER -> "keep-alive"])]

(* ---------------------------- request data ----------------------------- *)

\* key.toLowerCase() on the header names of the model
ToLowerCase(key) ==
  CASE key \in {"Accept", "ACCEPT"} -> "accept"
    [] key \in {"Origin", "ORIGIN"} -> "origin"
    [] key \in {"X-API-Key", "X-Api-Key"} -> "x-api-key"
    [] key \in {"Authorization", "AUTHORIZATION"} -> "authorization"
    [] OTHER -> key

RECURSIVE AnyOrder(_)
AnyOrder(keys) ==
  IF keys = {} THEN <<>>
  ELSE LET key == CHOOSE k \in keys : TRUE IN <<key>> \o AnyOrder(keys \ {key})

\* Object.entries(headers): the [key, value] pairs in the order the event
\* lists its headers (ev.order where the event tells it)
ObjectEntries(ev) ==
  LET order == IF "order" \in DOMAIN ev THEN ev.order ELSE AnyOrder(DOMAIN ev.headers)
  IN [i \in 1..Len(order) |-> [key |-> order[i], value |-> ev.headers[order[i]]]]

\* an assignment that keeps the value a name already has
Assign_KeepFirst(result, key, value) ==
  IF ToLowerCase(key) \in DOMAIN result
  THEN result
  ELSE Spread(result, [k \in {ToLowerCase(key)} |-> value])

\* result[key.toLowerCase()] = value
Assign(result, key, value) ==
  Spread(result, [k \in {ToLowerCase(key)} |-> value])

RECURSIVE normalizeHeadersFrom(_, _, _)
\* the for loop of normalizeHeaders from entry i on
normalizeHeadersFrom(entries, i, result) ==
  IF i > Len(entries)
  THEN result
  ELSE normalizeHeadersFrom(entries, i + 1,
         IF entries[i].value # Undefined
         THEN Assign(result, entries[i].key, entries[i].value)
         ELSE result)

normalizeHeaders(entries) == normalizeHeadersFrom(entries, 1, NoFields)

\* the buffered handler's event has httpMethod, the streaming handler's has
\* requestContext.http.method
toRequestData(streaming, ev, inp) ==
  [method |-> RequestMethod(streaming, ev),
   headers |-> normalizeHeaders(ObjectEntries(ev)),
   input |-> inp]

\* the handler is called: CORS headers, preflight, parseRequestBody
Invoke(ev, ctx) ==
  /\ pc = "idle"
  /\ event' = ev
  /\ lambdaContext' = ctx
  /\ corsHeaders' = buildCorsHeaders(opts.cors, getRequestOrigin(ev))
  /\ IF IsPreflight(opts.streaming, ev)
     THEN /\ pc' = "done"
          /\ IF opts.streaming
             THEN /\ preludes' = Append(preludes,
                         [statusCode |-> 204, headers |-> corsHeaders'])
                  /\ ended' = ended + 1
                  /\ UNCHANGED response
             ELSE /\ response' = [statusCode |-> 204, headers |-> corsHeaders',
                                  body |-> ""]
                  /\ UNCHANGED <<preludes, ended>>
          /\ UNCHANGED <<input, caught, calls>>
     ELSE /\ calls' = Append(calls, "parseRequestBody")
          /\ LET r == parseRequestBody(ev)
             IN IF r.ok
                THEN /\ input' = r.value
                     /\ pc' = "parsed"
                     /\ UNCHANGED caught
                ELSE /\ caught' = r.error
                     /\ pc' = "failed"
                     /\ UNCHANGED input
          /\ UNCHANGED <<response, preludes, ended>>
  /\ UNCHANGED <<opts, transport, suspended, requestData, actionContext, pOut, pTrace, pResult, passedContext,
                 produced, flowResult, written, escaped>>

\* a provider's rejection that is swallowed
Rejected_Swallowed(r) == FALSE

\* await opts.contextProvider(requestData) throws what the provider rejects with
Rejected(r) == ~r.ok

\* if (opts.contextProvider) { await opts.contextProvider(requestData) ... }
RunContextProvider ==
  /\ pc = "parsed"
  /\ IF opts.contextProvider.kind = "undefined"
     THEN /\ actionContext' = LambdaActionContext(event, lambdaContext)
          /\ pc' = "authorized"
          /\ UNCHANGED <<caught, calls, pOut, pTrace, pResult, requestData>>
     ELSE \E out \in [Leaves(opts.contextProvider) ->
                        UNION { CustomOutcomes(i) : i \in Leaves(opts.contextProvider) }] :
            /\ \A i \in DOMAIN out : out[i] \in CustomOutcomes(i)
            /\ pOut' = out
            /\ requestData' = toRequestData(opts.streaming, event, input)
            /\ calls' = Append(calls, "contextProvider")
            /\ LET r == CallProvider(opts.contextProvider, out, <<>>)
               IN /\ pResult' = r
                  /\ pTrace' = Started(r.trace)
                  /\ IF ~Rejected(r)
                     THEN /\ actionContext' =
                               MergeContext(LambdaActionContext(event, lambdaContext),
                                            r.context)
                          /\ pc' = "authorized"
                          /\ UNCHANGED caught
                     ELSE /\ caught' = r.error
                          /\ pc' = "failed"
                          /\ UNCHANGED actionContext
  /\ UNCHANGED <<opts, transport, suspended, event, lambdaContext, corsHeaders, input, passedContext,
                 produced, flowResult, response, preludes, written, ended, escaped>>

\* a handler that runs the Action to completion whatever the client accepts
FlowCall_AlwaysRun(streaming, ev) == "flow.run"

\* the call that invokes the Action: flow.stream in the streaming handler for
\* a client that wants an event stream, flow.run otherwise
FlowCall(streaming, ev) ==
  IF streaming /\ clientWantsStreaming(ev) THEN "flow.stream" ELSE "flow.run"

\* await flow.run(input, { context: actionContext }) and the buffered
\* response: the buffered handler, and the streaming handler for a client
\* that did not ask for an event stream
RunFlow ==
  /\ pc = "authorized"
  /\ ~(opts.streaming /\ clientWantsStreaming(event))
  /\ calls' = Append(calls, FlowCall(opts.streaming, event))
  /\ passedContext' = actionContext
  /\ \/ \E error \in FlowErrors :
          /\ caught' = error
          /\ pc' = "failed"
          /\ UNCHANGED <<flowResult, response, preludes, written, ended>>
     \/ \E result \in Results :
          /\ flowResult' = result
          /\ IF opts.streaming
             THEN /\ preludes' = Append(preludes,
                         [statusCode |-> 200, headers |-> corsHeaders])
                  /\ IF CanStringify(ResultDoc(result))
                     THEN /\ written' = Append(written, JSONstringify(ResultDoc(result)))
                          /\ ended' = ended + 1
                          /\ pc' = "done"
                          /\ UNCHANGED caught
                     ELSE /\ caught' = SerializeError
                          /\ pc' = "failed"
                          /\ UNCHANGED <<written, ended>>
                  /\ UNCHANGED response
             ELSE /\ IF CanStringify(ResultDoc(result))
                     THEN /\ response' = [statusCode |-> 200, headers |-> corsHeaders,
                                          body |-> JSONstringify(ResultDoc(result))]
                          /\ pc' = "done"
                          /\ UNCHANGED caught
                     ELSE /\ caught' = SerializeError
                          /\ pc' = "failed"
                          /\ UNCHANGED response
                  /\ UNCHANGED <<preludes, written, ended>>
  /\ UNCHANGED <<opts, transport, suspended, requestData, event, lambdaContext, corsHeaders, input, actionContext,
                 pOut, pTrace, pResult, produced, escaped>>

\* the event stream is opened with status 200 and flow.stream is called
OpenStream ==
  /\ pc = "authorized"
  /\ opts.streaming /\ clientWantsStreaming(event)
  /\ preludes' = Append(preludes, SsePrelude(corsHeaders))
  /\ calls' = Append(calls, FlowCall(opts.streaming, event))
  /\ passedContext' = actionContext
  /\ pc' = "streaming"
  /\ UNCHANGED <<opts, transport, suspended, requestData, event, lambdaContext, corsHeaders, input, actionContext,
                 caught, pOut, pTrace, pResult, produced, flowResult, response,
                 written, ended, escaped>>

\* one turn of for await (const chunk of stream)
WriteChunk ==
  /\ pc = "streaming"
  /\ Len(produced) < MaxChunks
  /\ \E chunk \in Chunks :
       /\ produced' = Append(produced, chunk)
       /\ written' = Append(written, SseEvent(JSONstringify(MessageDoc(chunk))))
  /\ UNCHANGED <<opts, transport, suspended, requestData, pc, event, lambdaContext, corsHeaders, input, actionContext,
                 caught, calls, pOut, pTrace, pResult, passedContext, flowResult,
                 response, preludes, ended, escaped>>

\* the stream's iteration, or the output promise, rejects
StreamFail ==
  /\ pc = "streaming"
  /\ \E error \in FlowErrors : caught' = error
  /\ pc' = "failed"
  /\ UNCHANGED <<opts, transport, suspended, requestData, event, lambdaContext, corsHeaders, input, actionContext,
                 calls, pOut, pTrace, pResult, passedContext, produced, flowResult,
                 response, preludes, written, ended, escaped>>

\* the stream is exhausted: await output, the result event, end
FinishStream ==
  /\ pc = "streaming"
  /\ \E result \in Results :
       /\ flowResult' = result
       /\ IF CanStringify(ResultDoc(result))
          THEN /\ written' = Append(written, SseEvent(JSONstringify(ResultDoc(result))))
               /\ ended' = ended + 1
               /\ pc' = "done"
               /\ UNCHANGED caught
          ELSE /\ caught' = SerializeError
               /\ pc' = "failed"
               /\ UNCHANGED <<written, ended>>
  /\ UNCHANGED <<opts, transport, suspended, requestData, event, lambdaContext, corsHeaders, input, actionContext,
                 calls, pOut, pTrace, pResult, passedContext, produced, response,
                 preludes, escaped>>

\* a catch block that maps the error by default although opts.onError returned
ErrorStatusCode_DefaultMapping(onError, error) == getHttpStatus(error)

\* a catch block that answers every failure with status 500
ErrorStatusCode_Always500(onError, error) ==
  IF onError.kind = "returns" THEN onError.statusCode ELSE 500

\* the status of the failure response: customError.statusCode if opts.onError
\* is configured, else getHttpStatus(error)
ErrorStatusCode(onError, error) ==
  IF onError.kind = "returns" THEN onError.statusCode ELSE getHttpStatus(error)

\* the body of the failure response
ErrorBody(onError, error) ==
  IF onError.kind = "returns"
  THEN JSONstringify(CustomErrorDoc(onError))
  ELSE JSONstringify(getCallableJSON(error))

\* catch (error): opts.onError if configured, else getHttpStatus and
\* getCallableJSON; a throwing opts.onError rejects the handler's promise
HandleError ==
  /\ pc = "failed"
  /\ calls' = IF opts.onError.kind = "undefined" THEN calls
              ELSE Append(calls, "onError")
  /\ IF opts.onError.kind = "throws"
     THEN /\ escaped' = PlainError(opts.onError.message)
          /\ pc' = "escaped"
          /\ UNCHANGED <<response, preludes, written, ended>>
     ELSE LET statusCode == ErrorStatusCode(opts.onError, caught)
              body == ErrorBody(opts.onError, caught)
          IN /\ IF opts.streaming
                THEN /\ preludes' = Append(preludes,
                            [statusCode |-> statusCode, headers |-> corsHeaders])
                     /\ written' = Append(written, body)
                     /\ ended' = ended + 1
                     /\ UNCHANGED response
                ELSE /\ response' = [statusCode |-> statusCode,
                                     headers |-> corsHeaders, body |-> body]
                     /\ UNCHANGED <<preludes, written, ended>>
             /\ pc' = "done"
             /\ UNCHANGED escaped
  /\ UNCHANGED <<opts, transport, suspended, requestData, event, lambdaContext, corsHeaders, input, actionContext,
                 caught, pOut, pTrace, pResult, passedContext, produced, flowResult>>

\* the catch block of the buffered handler as a function of the error
BufferedCatch(o, headers, error) ==
  IF o.onError.kind = "throws"
  THEN [escaped |-> TRUE, response |-> NoResponse]
  ELSE [escaped |-> FALSE,
        response |-> [statusCode |-> ErrorStatusCode(o.onError, error),
                      headers |-> headers,
                      body |-> ErrorBody(o.onError, error)]]

\* the buffered handler as a function of the options, the event, what the
\* custom providers do (out) and what flow.run does (it throws flowError, or
\* resolves to result): the value the handler returns, or escaped when its
\* promise rejects
BufferedHandler(o, ev, out, flowThrew, flowError, result) ==
  LET headers == buildCorsHeaders(o.cors, getRequestOrigin(ev))
      parsed == parseRequestBody(ev)
      provided == CallProvider(o.contextProvider, out, <<>>)
  IN IF IsPreflight(FALSE, ev)
     THEN [escaped |-> FALSE,
           response |-> [statusCode |-> 204, headers |-> headers, body |-> ""]]
     ELSE IF ~parsed.ok THEN BufferedCatch(o, headers, parsed.error)
     ELSE IF o.contextProvider.kind # "undefined" /\ Rejected(provided)
          THEN BufferedCatch(o, headers, provided.error)
     ELSE IF flowThrew THEN BufferedCatch(o, headers, flowError)
     ELSE IF ~CanStringify(ResultDoc(result))
          THEN BufferedCatch(o, headers, SerializeError)
     ELSE [escaped |-> FALSE,
           response |-> [statusCode |-> 200, headers |-> headers,
                         body |-> JSONstringify(ResultDoc(result))]]

Next ==
  \/ \E ev \in Events, ctx \in LambdaContexts : Invoke(ev, ctx)
  \/ RunContextProvider
  \/ RunFlow
  \/ OpenStream
  \/ WriteChunk
  \/ StreamFail
  \/ FinishStream
  \/ HandleError

Spec == Init /\ [][Next]_vars

(* ------------------- parseRequestBody on its own ----------------------- *)

\* the options of a handler with every option left out
DefaultOptions ==
  [streaming |-> FALSE, cors |-> CorsUndefined, contextProvider |-> NoProvider,
   onError |-> OnErrorUndefined]

\* the direct and the wrapped body of every input, and bodies that are absent,
\* empty or not JSON
ParseBodies ==
  { JSONstringify(v) : v \in JsonValues } \cup {Undefined, "", "{bad"}

ParseEvents ==
  [method : Methods, headers : HeaderMaps, body : ParseBodies,
   isBase64Encoded : {FALSE}]
    \cup [method : Methods, headers : HeaderMaps, body : Base64Bodies,
          isBase64Encoded : {TRUE}]

InitParse ==
  /\ opts = DefaultOptions
  /\ event \in ParseEvents
  /\ Idle

\* const input = parseRequestBody(event)
ParseBody ==
  /\ pc = "idle"
  /\ calls' = Append(calls, "parseRequestBody")
  /\ LET r == parseRequestBody(event)
     IN IF r.ok
        THEN /\ input' = r.value
             /\ pc' = "parsed"
             /\ UNCHANGED caught
        ELSE /\ caught' = r.error
             /\ pc' = "failed"
             /\ UNCHANGED input
  /\ UNCHANGED <<opts, transport, suspended, requestData, event, lambdaContext, corsHeaders, actionContext, pOut,
                 pTrace, pResult, passedContext, produced, flowResult, response,
                 preludes, written, ended, escaped>>

NextParse == ParseBody

SpecParse == InitParse /\ [][NextParse]_vars

(* ------------------- buildCorsHeaders on its own ----------------------- *)

\* the origins of the model: two sites
Origins == {"https://a", "https://b"}

\* the lists of at most MaxOrigins origins
OriginLists ==
  UNION { [1..n -> Origins] : n \in 0..MaxOrigins }

\* CorsOptions.origin left out, a string, or a list
OriginPolicies ==
  {CorsValue("object", FALSE, <<>>, Undefined)}
    \cup { CorsValue("object", FALSE, <<>>, o) : o \in {"*"} \cup Origins }
    \cup { CorsValue("object", TRUE, list, Undefined) : list \in OriginLists }

\* LambdaOptions.cors: left out, true, false, or a CorsOptions object
CorsConfigs ==
  {CorsUndefined, CorsTrue, CorsFalse}
    \cup { [c EXCEPT !.methods = m, !.allowedHeaders = a, !.exposedHeaders = x,
                     !.credentials = cr, !.maxAge = age] :
             c \in OriginPolicies,
             m \in {Absent, Items(<<"GET">>)},
             a \in {Absent, Items(<<"X-Api-Key", "Content-Type">>)},
             x \in {Absent, Items(<<>>), Items(<<"X-Request-Id">>)},
             cr \in BOOLEAN,
             age \in {NoNumber, Number(0), Number(600)} }

\* requests that name no origin, and requests of each origin under either
\* spelling of the header
CorsEvents ==
  [method : {"POST", "OPTIONS"},
   headers : {NoFields} \cup { Header(name, o) : name \in {"origin", "Origin"},
                                                o \in Origins },
   body : {Undefined}, isBase64Encoded : {FALSE}]

InitCors ==
  /\ opts \in [streaming : {FALSE}, cors : CorsConfigs,
               contextProvider : {NoProvider}, onError : {OnErrorUndefined}]
  /\ event \in CorsEvents
  /\ Idle

\* const requestOrigin = getRequestOrigin(event);
\* const corsHeaders = buildCorsHeaders(opts.cors, requestOrigin)
BuildCors ==
  /\ pc = "idle"
  /\ corsHeaders' = buildCorsHeaders(opts.cors, getRequestOrigin(event))
  /\ pc' = "cors"
  /\ UNCHANGED <<opts, transport, suspended, requestData, event, lambdaContext, input, actionContext, caught, calls,
                 pOut, pTrace, pResult, passedContext, produced, flowResult,
                 response, preludes, written, ended, escaped>>

NextCors == BuildCors

SpecCors == InitCors /\ [][NextCors]_vars

(* ---------------- the event stream and its transport ------------------- *)

\* the transport flushes the oldest write it still holds to the client
Flush ==
  /\ transport.connected
  /\ transport.flushed < Len(written)
  /\ transport' = [transport EXCEPT !.flushed = @ + 1]
  /\ UNCHANGED <<opts, pc, event, lambdaContext, corsHeaders, input, actionContext,
                 caught, calls, pOut, pTrace, pResult, requestData, passedContext,
                 produced, flowResult, response, preludes, written, ended, escaped,
                 suspended>>

\* the client goes away while the event stream is open
Disconnect ==
  /\ pc = "streaming"
  /\ transport.connected
  /\ transport' = [transport EXCEPT !.connected = FALSE]
  /\ UNCHANGED <<opts, pc, event, lambdaContext, corsHeaders, input, actionContext,
                 caught, calls, pOut, pTrace, pResult, requestData, passedContext,
                 produced, flowResult, response, preludes, written, ended, escaped,
                 suspended>>

\* requests to the streaming handler, with and without the SSE Accept header
StreamEvents ==
  [method : {"POST", Undefined}, headers : HeaderMaps, body : {Undefined, "\"a\""},
   isBase64Encoded : {FALSE}]

InitStream ==
  /\ opts \in [streaming : {TRUE}, cors : {CorsUndefined},
               contextProvider : {NoProvider},
               onError : {OnErrorUndefined, OnErrorReturns, OnErrorThrows}]
  /\ event = NoEvent
  /\ Idle

NextStream ==
  \/ \E ev \in StreamEvents, ctx \in LambdaContexts : Invoke(ev, ctx)
  \/ RunContextProvider
  \/ RunFlow
  \/ OpenStream
  \/ WriteChunk
  \/ StreamFail
  \/ FinishStream
  \/ HandleError
  \/ Flush
  \/ Disconnect

SpecStream == InitStream /\ [][NextStream]_vars

(* ----------------------- two invocations interleaved ------------------- *)

\* the locals of the running invocation
Locals ==
  [pc |-> pc, event |-> event, lambdaContext |-> lambdaContext,
   corsHeaders |-> corsHeaders, input |-> input, actionContext |-> actionContext,
   caught |-> caught, calls |-> calls, pOut |-> pOut, pTrace |-> pTrace,
   pResult |-> pResult, requestData |-> requestData,
   passedContext |-> passedContext, produced |-> produced,
   flowResult |-> flowResult, response |-> response, preludes |-> preludes,
   written |-> written, ended |-> ended, escaped |-> escaped,
   transport |-> transport]

\* corsHeaders kept in a variable outside the handler function, shared by
\* the invocations
ResumedCorsHeaders_Shared(saved) == corsHeaders

\* const corsHeaders is a local of the handler call: a resumed invocation
\* finds its own
ResumedCorsHeaders(saved) == saved.corsHeaders

\* the running invocation is suspended at an await (or has returned) and the
\* event loop runs the other invocation of the same handler
Switch ==
  /\ Locals # suspended
  /\ suspended' = Locals
  /\ pc' = suspended.pc
  /\ event' = suspended.event
  /\ lambdaContext' = suspended.lambdaContext
  /\ corsHeaders' = ResumedCorsHeaders(suspended)
  /\ input' = suspended.input
  /\ actionContext' = suspended.actionContext
  /\ caught' = suspended.caught
  /\ calls' = suspended.calls
  /\ pOut' = suspended.pOut
  /\ pTrace' = suspended.pTrace
  /\ pResult' = suspended.pResult
  /\ requestData' = suspended.requestData
  /\ passedContext' = suspended.passedContext
  /\ produced' = suspended.produced
  /\ flowResult' = suspended.flowResult
  /\ response' = suspended.response
  /\ preludes' = suspended.preludes
  /\ written' = suspended.written
  /\ ended' = suspended.ended
  /\ escaped' = suspended.escaped
  /\ transport' = suspended.transport
  /\ UNCHANGED opts

\* requests of an allowed origin and of none, preflight or not, with a body
\* that parses or not
IsolationEvents ==
  [method : {"POST", "OPTIONS"},
   headers : {NoFields,
              [k \in {"origin", "accept"} |->
                 IF k = "origin" THEN "https://a" ELSE "text/event-stream"]},
   body : {Undefined, "{bad"}, isBase64Encoded : {FALSE}]

InitIsolation ==
  /\ opts \in [streaming : BOOLEAN, cors : {CorsAllowList},
               contextProvider : {Custom(1)}, onError : {OnErrorUndefined}]
  /\ event = NoEvent
  /\ Idle

NextIsolation ==
  \/ \E ev \in IsolationEvents, ctx \in LambdaContexts : Invoke(ev, ctx)
  \/ RunContextProvider
  \/ RunFlow
  \/ OpenStream
  \/ WriteChunk
  \/ StreamFail
  \/ FinishStream
  \/ HandleError
  \/ Switch

SpecIsolation == InitIsolation /\ [][NextIsolation]_vars

(* ------------------------ the catch block on its own -------------------- *)

\* what the catch block may be given: errors without a taxonomy code that
\* differ in message or in stack only, and errors with a code, with and
\* without structured details
CatchErrors ==
  { PlainError("boom"), PlainError("connect ECONNREFUSED 10.0.0.7:5432"),
    WithStack(PlainError("boom"), "at loadJoke (/var/task/index.js:12:9)"),
    WithDetails(PlainError("boom"), JStr("row 7")),
    UserFacingError("NOT_FOUND", "no such joke"),
    WithStack(UserFacingError("NOT_FOUND", "no such joke"), "at run (/var/task/index.js:3:1)"),
    WithDetails(UserFacingError("INVALID_ARGUMENT", "bad subject"),
                JObj(<< <<"field", JStr("subject")>> >>)) }

\* a POST request whose Action has just failed, in either handler
InitCatch ==
  /\ opts \in [streaming : BOOLEAN, cors : {CorsUndefined, CorsFalse},
               contextProvider : {NoProvider},
               onError : {OnErrorUndefined, OnErrorReturns, OnErrorThrows}]
  /\ event \in [method : {"POST"}, headers : HeaderMaps, body : {Undefined, "\"a\""},
                isBase64Encoded : {FALSE}]
  /\ pc = "failed"
  /\ lambdaContext \in LambdaContexts
  /\ corsHeaders = buildCorsHeaders(opts.cors, getRequestOrigin(event))
  /\ input = parseRequestBody(event).value
  /\ actionContext = LambdaActionContext(event, lambdaContext)
  /\ caught \in CatchErrors
  /\ calls = <<"parseRequestBody", "flow.run">>
  /\ (opts.streaming => ~clientWantsStreaming(event))
  /\ pOut = <<>>
  /\ pTrace = <<>>
  /\ pResult = NoProviderResult
  /\ requestData = NoRequest
  /\ passedContext = actionContext
  /\ produced = <<>>
  /\ flowResult = JNull
  /\ response = NoResponse
  /\ preludes = <<>>
  /\ written = <<>>
  /\ ended = 0
  /\ escaped = NoError
  /\ transport = NoTransport
  /\ suspended = IdleLocals

NextCatch == HandleError

SpecCatch == InitCatch /\ [][NextCatch]_vars

(* ------------------------ built-in providers --------------------------- *)

\* a callback given where a value may be given
Function == "<function>"

\* a ContextProvider made by one of the exported factories
Builtin(kind, headerName, expected) ==
  [kind |-> kind, id |-> 0, ps |-> <<>>, headerName |-> headerName,
   expected |-> expected]

\* a call of the caller's validator, with its argument
ValidatorCall(arg) == [kind |-> "validate", arg |-> arg]

Resolves(context, trace) ==
  [ok |-> TRUE, context |-> context, error |-> PlainError(""), trace |-> trace]
Rejects(error, trace) ==
  [ok |-> FALSE, context |-> NoFields, error |-> error, trace |-> trace]

\* a requireHeader that does not compare the value
requireHeader_PresenceOnly(headerName, expectedValue, request) ==
  LET value == Get(request.headers, ToLowerCase(headerName))
  IN IF ~Truthy(value)
     THEN Rejects(UserFacingError("UNAUTHENTICATED",
                                  "Missing required header: " \o headerName), <<>>)
     ELSE Resolves(NoFields, <<>>)

\* the provider requireHeader(headerName, expectedValue) called with request
requireHeader(headerName, expectedValue, request) ==
  LET value == Get(request.headers, ToLowerCase(headerName))
  IN IF ~Truthy(value)
     THEN Rejects(UserFacingError("UNAUTHENTICATED",
                                  "Missing required header: " \o headerName), <<>>)
     ELSE IF expectedValue # Undefined /\ value # expectedValue
          THEN Rejects(UserFacingError("PERMISSION_DENIED",
                                       "Invalid value for header: " \o headerName), <<>>)
          ELSE Resolves(NoFields, <<>>)

\* a requireApiKey that swallows what the validator throws
requireApiKey_IgnoreValidator(headerName, expectedValueOrValidator, request, validator) ==
  LET apiKey == Get(request.headers, ToLowerCase(headerName))
  IN IF ~Truthy(apiKey)
     THEN Rejects(UserFacingError("UNAUTHENTICATED",
                                  "Missing required header: " \o headerName), <<>>)
     ELSE IF expectedValueOrValidator # Function
          THEN IF apiKey # expectedValueOrValidator
               THEN Rejects(UserFacingError("PERMISSION_DENIED", "Invalid API key"), <<>>)
               ELSE Resolves([k \in {"auth"} |-> [apiKey |-> apiKey]], <<>>)
          ELSE Resolves([k \in {"auth"} |-> [apiKey |-> apiKey]],
                        <<ValidatorCall(apiKey)>>)

\* the provider requireApiKey(headerName, expectedValueOrValidator) called
\* with request; validator is what the callback does when it is called
requireApiKey(headerName, expectedValueOrValidator, request, validator) ==
  LET apiKey == Get(request.headers, ToLowerCase(headerName))
  IN IF ~Truthy(apiKey)
     THEN Rejects(UserFacingError("UNAUTHENTICATED",
                                  "Missing required header: " \o headerName), <<>>)
     ELSE IF expectedValueOrValidator # Function
          THEN IF apiKey # expectedValueOrValidator
               THEN Rejects(UserFacingError("PERMISSION_DENIED", "Invalid API key"), <<>>)
               ELSE Resolves([k \in {"auth"} |-> [apiKey |-> apiKey]], <<>>)
          ELSE IF validator.ok
               THEN Resolves([k \in {"auth"} |-> [apiKey |-> apiKey]],
                             <<ValidatorCall(apiKey)>>)
               ELSE Rejects(validator.error, <<ValidatorCall(apiKey)>>)

\* match[1] of authHeader.match(/^Bearer\s+(.+)$/i) on the Authorization
\* values of the model, Undefined where the pattern does not match
BearerToken(authHeader) ==
  CASE authHeader \in {"Bearer t1", "bearer  t1", "BEARER t1"} -> "t1"
    [] authHeader = "Bearer t1 t2" -> "t1 t2"
    [] OTHER -> Undefined

\* a requireBearerToken that hands the whole header to validateToken
requireBearerToken_WholeHeader(request, validateToken) ==
  LET authHeader == Get(request.headers, "authorization")
  IN IF ~Truthy(authHeader)
     THEN Rejects(UserFacingError("UNAUTHENTICATED", "Missing Authorization header"), <<>>)
     ELSE IF BearerToken(authHeader) = Undefined
          THEN Rejects(UserFacingError("UNAUTHENTICATED",
                 "Invalid Authorization header format. Expected: Bearer <token>"), <<>>)
          ELSE IF validateToken.ok
               THEN Resolves(validateToken.context, <<ValidatorCall(authHeader)>>)
               ELSE Rejects(validateToken.error, <<ValidatorCall(authHeader)>>)

\* the provider requireBearerToken(validateToken) called with request;
\* validateToken is what the callback does when it is called
requireBearerToken(request, validateToken) ==
  LET authHeader == Get(request.headers, "authorization")
  IN IF ~Truthy(authHeader)
     THEN Rejects(UserFacingError("UNAUTHENTICATED", "Missing Authorization header"), <<>>)
     ELSE IF BearerToken(authHeader) = Undefined
          THEN Rejects(UserFacingError("UNAUTHENTICATED",
                 "Invalid Authorization header format. Expected: Bearer <token>"), <<>>)
          ELSE IF validateToken.ok
               THEN Resolves(validateToken.context,
                             <<ValidatorCall(BearerToken(authHeader))>>)
               ELSE Rejects(validateToken.error,
                            <<ValidatorCall(BearerToken(authHeader))>>)

\* the provider allowAll()
allowAll == Resolves(NoFields, <<>>)

\* await p(request) for a built-in provider p
CallBuiltin(p, request, validator) ==
  CASE p.kind = "requireHeader" -> requireHeader(p.headerName, p.expected, request)
    [] p.kind = "requireApiKey" ->
         requireApiKey(p.headerName, p.expected, request, validator)
    [] p.kind = "requireBearerToken" -> requireBearerToken(request, validator)
    [] OTHER -> allowAll

\* what a validator callback does with what it is given
ValidatorOutcomes ==
  { Returns([k \in {"auth"} |-> [token |-> "t1"]]),
    Throws(UserFacingError("PERMISSION_DENIED", "revoked")),
    Throws(PlainError("validator down")) }

\* if (opts.contextProvider) { await opts.contextProvider(requestData) ... }
\* for a provider made by a built-in factory
RunBuiltinProvider ==
  /\ pc = "parsed"
  /\ \E validator \in ValidatorOutcomes :
       /\ pOut' = <<validator>>
       /\ requestData' = toRequestData(opts.streaming, event, input)
       /\ calls' = Append(calls, "contextProvider")
       /\ LET r == CallBuiltin(opts.contextProvider, requestData', validator)
          IN /\ pResult' = r
             /\ pTrace' = r.trace
             /\ IF ~Rejected(r)
                THEN /\ actionContext' =
                          MergeContext(LambdaActionContext(event, lambdaContext),
                                       r.context)
                     /\ pc' = "authorized"
                     /\ UNCHANGED caught
                ELSE /\ caught' = r.error
                     /\ pc' = "failed"
                     /\ UNCHANGED actionContext
  /\ UNCHANGED <<opts, transport, suspended, event, lambdaContext, corsHeaders, input,
                 passedContext, produced, flowResult, response, preludes, written,
                 ended, escaped>>

\* the headers an event may list: API key and Authorization headers under
\* several casings, with good, bad, empty and undefined values
MaxHeaders == 2

HeaderEntries ==
  [key : {"X-API-Key", "x-api-key", "X-Api-Key"}, value : {"k1", "k2", "", Undefined}]
    \cup [key : {"Authorization", "authorization"},
          value : {"Bearer t1", "bearer  t1", "Basic t1", "Bearer"}]

EntryLists ==
  { entries \in UNION { [1..n -> HeaderEntries] : n \in 0..MaxHeaders } :
      \A i, j \in DOMAIN entries : i # j => entries[i].key # entries[j].key }

\* the event that lists the headers entries in this order
EventOf(entries) ==
  [method |-> "POST",
   headers |-> [key \in { entries[i].key : i \in DOMAIN entries } |->
                  (CHOOSE e \in { entries[i] : i \in DOMAIN entries } : e.key = key).value],
   body |-> "\"a\"", isBase64Encoded |-> FALSE,
   order |-> [i \in DOMAIN entries |-> entries[i].key]]

ProviderEvents == { EventOf(entries) : entries \in EntryLists }

BuiltinProviders ==
  { Builtin("requireHeader", "X-API-Key", Undefined),
    Builtin("requireHeader", "x-api-key", "k1"),
    Builtin("requireApiKey", "X-API-Key", "k1"),
    Builtin("requireApiKey", "X-Api-Key", Function),
    Builtin("requireBearerToken", "", Function),
    Builtin("allowAll", "", Undefined) }

InitProvider ==
  /\ opts \in [streaming : BOOLEAN, cors : {CorsUndefined},
               contextProvider : BuiltinProviders, onError : {OnErrorUndefined}]
  /\ event = NoEvent
  /\ Idle

NextProvider ==
  \/ \E ev \in ProviderEvents, ctx \in LambdaContexts : Invoke(ev, ctx)
  \/ RunBuiltinProvider

SpecProvider == InitProvider /\ [][NextProvider]_vars

(* ------------------- the properties of the handler --------------------- *)

\* the properties onCallGenkit attaches to the buffered handler it returns:
\* callableFunction.flow = flow; callableFunction.flowName = flowName
AttachedProperties == {"flow", "flowName"}

\* what calling a property that is undefined throws
NotAFunction(name) == PlainError("handler." \o name \o " is not a function")

\* a caller (a test) calls handler.run(input) or handler.stream(input) on the
\* handler of a non-streaming endpoint: the property was never assigned, so
\* the call throws in the caller
DirectCall(name, inp) ==
  /\ pc = "idle"
  /\ ~opts.streaming
  /\ name \notin AttachedProperties
  /\ calls' = Append(calls, "handler." \o name)
  /\ input' = inp
  /\ escaped' = NotAFunction(name)
  /\ pc' = "escaped"
  /\ UNCHANGED <<opts, transport, suspended, requestData, event, lambdaContext, corsHeaders,
                 actionContext, caught, pOut, pTrace, pResult, passedContext, produced,
                 flowResult, response, preludes, written, ended>>

InitCallable ==
  /\ opts \in OptionSets
  /\ ~opts.streaming
  /\ event = NoEvent
  /\ Idle

NextCallable ==
  \E name \in {"run", "stream"}, inp \in InputValues : DirectCall(name, inp)

SpecCallable == InitCallable /\ [][NextCallable]_vars

(* ------------------------- nested combinators -------------------------- *)

\* a combinator over a combinator of the same kind and a third provider, on
\* either side, and a combinator over a single provider
NestedConfigs ==
  UNION { { Provider(kind, 0, <<Provider(kind, 0, <<Custom(1), Custom(2)>>), Custom(3)>>),
            Provider(kind, 0, <<Custom(1), Provider(kind, 0, <<Custom(2), Custom(3)>>)>>),
            Provider(kind, 0, <<Custom(1)>>),
            Provider(kind, 0, <<Custom(2)>>) } : kind \in {"allOf", "anyOf"} }

NestedEvents ==
  [method : {"POST"}, headers : {NoFields}, body : {Undefined, "\"a\""},
   isBase64Encoded : {FALSE}]

InitNested ==
  /\ opts \in [streaming : BOOLEAN, cors : {CorsUndefined},
               contextProvider : NestedConfigs, onError : {OnErrorUndefined}]
  /\ event = NoEvent
  /\ Idle

NextNested ==
  \/ \E ev \in NestedEvents, ctx \in LambdaContexts : Invoke(ev, ctx)
  \/ RunContextProvider

SpecNested == InitNested /\ [][NextNested]_vars

(* ---------------------- header names in any case ----------------------- *)

\* requests that name their origin, or the event stream they accept, under
\* one of three spellings of the header name
CasingEvents ==
  [method : {"POST"},
   headers : {NoFields}
     \cup { Header(name, "https://a") : name \in {"origin", "Origin", "ORIGIN"} }
     \cup { Header(name, "text/event-stream") : name \in {"accept", "Accept", "ACCEPT"} },
   body : {Undefined, "\"a\""}, isBase64Encoded : {FALSE}]

InitCasing ==
  /\ opts \in [streaming : BOOLEAN, cors : {CorsUndefined, CorsAllowList},
               contextProvider : {NoProvider}, onError : {OnErrorUndefined}]
  /\ event = NoEvent
  /\ Idle

NextCasing ==
  \/ \E ev \in CasingEvents, ctx \in LambdaContexts : Invoke(ev, ctx)
  \/ RunContextProvider
  \/ RunFlow
  \/ OpenStream
  \/ WriteChunk
  \/ StreamFail
  \/ FinishStream
  \/ HandleError

SpecCasing == InitCasing /\ [][NextCasing]_vars

(* ------------- buildCorsHeaders of the variant in part_001 ------------- *)

\* const requestOrigin = getRequestOrigin(event);
\* const corsHeaders = buildCorsHeaders(opts.cors, requestOrigin) in the variant
BuildCorsOfVariant ==
  /\ pc = "idle"
  /\ corsHeaders' = buildCorsHeadersOfVariant(opts.cors, getRequestOrigin(event))
  /\ pc' = "cors"
  /\ UNCHANGED <<opts, transport, suspended, requestData, event, lambdaContext, input,
                 actionContext, caught, calls, pOut, pTrace, pResult, passedContext,
                 produced, flowResult, response, preludes, written, ended, escaped>>

NextCorsOfVariant == BuildCorsOfVariant

SpecCorsOfVariant == InitCors /\ [][NextCorsOfVariant]_vars

TypeOK ==
  /\ pc \in {"idle", "parsed", "authorized", "streaming", "failed", "done", "escaped"}
  /\ opts \in OptionSets
  /\ ended \in 0..2
  /\ Len(produced) <= MaxChunks

(* ------------------------------ properties ----------------------------- *)

Called(name) == \E i \in 1..Len(calls) : calls[i] = name

ActionCalled == Called("flow.run") \/ Called("flow.stream")

\* the invocation opened the response as an event stream
StreamOpened == Called("flow.stream")

\* the invocation failed after it had opened the event stream
FailedAfterOpen == StreamOpened /\ caught # NoError

\* the error document of the buffered failure response for the caught error
BufferedErrorDocument ==
  IF opts.onError.kind = "returns"
  THEN "{\"error\":{\"status\":\"INTERNAL\",\"message\":\"" \o opts.onError.message \o "\"}}"
  ELSE IF caught.status # Undefined
       THEN "{\"error\":{\"status\":\"" \o caught.status \o "\",\"message\":\""
              \o caught.message \o "\"}}"
       ELSE "{\"error\":{\"status\":\"INTERNAL\",\"message\":\"Internal Error\"}}"

\* C1: in the streaming handler, once the response was opened as an event
\* stream with status 200, the status is not set again: no second metadata
\* is given to the response stream, and none with an error status.
C1_StatusCommitted ==
  StreamOpened =>
    /\ Len(preludes) = 1
    /\ \A i \in 1..Len(preludes) : preludes[i].statusCode = 200

\* C2: when the Action fails after the event stream is open, the last record
\* written is the SSE event data: {"error":{...}}\n\n carrying the buffered
\* failure's error document, and the stream is then closed.
C2_TerminalErrorEvent ==
  (FailedAfterOpen /\ pc = "done") =>
    /\ Len(written) >= 1
    /\ written[Len(written)] = "data: " \o BufferedErrorDocument \o "\n\n"
    /\ ended = 1

\* the text of the JSON values the flows of the model produce
TextOf(v) ==
  CASE v = JStr("a") -> "\"a\""
    [] v = JStr("b") -> "\"b\""
    [] v = JObj(<< <<"joke", JStr("ab")>> >>) -> "{\"joke\":\"ab\"}"
    [] OTHER -> Undefined

\* the n chunk events of the chunks produced so far, in production order
ChunkEvents ==
  [i \in 1..Len(produced) |-> "data: {\"message\":" \o TextOf(produced[i]) \o "}\n\n"]

\* C3: for an Action producing chunks c1..cn and then the result r, the
\* streaming handler writes, for a client accepting text/event-stream, the n
\* message events in production order, then the result event as the last
\* one, and ends the stream; while chunks are produced only message events
\* have been written.
C3_ChunksThenResult ==
  /\ pc = "streaming" => (written = ChunkEvents /\ ended = 0)
  /\ (pc = "done" /\ StreamOpened /\ caught = NoError) =>
       /\ written = Append(ChunkEvents,
                           "data: {\"result\":" \o TextOf(flowResult) \o "}\n\n")
       /\ ended = 1

C3_Witness ==
  /\ pc = "done" /\ StreamOpened /\ caught = NoError
  /\ Len(produced) = 2 /\ produced[1] # produced[2]
  /\ Len(written) = 3

\* a string is one complete SSE record of the callable protocol
IsSseRecord(w) ==
  \/ \E c \in Chunks : w = "data: {\"message\":" \o TextOf(c) \o "}\n\n"
  \/ \E r \in Results : CanStringify(r) /\ w = "data: {\"result\":" \o TextOf(r) \o "}\n\n"
  \/ w = "data: " \o BufferedErrorDocument \o "\n\n"

\* the finished invocation gave a well-formed response: a status and a body
\* in the buffered handler; in the streaming handler a status, the stream
\* ended once, SSE records only on an open event stream and one body
\* otherwise
WellFormedResponse ==
  IF opts.streaming
  THEN /\ preludes # <<>>
       /\ ended = 1
       /\ StreamOpened => \A i \in 1..Len(written) : IsSseRecord(written[i])
       /\ (~StreamOpened /\ calls # <<>>) => Len(written) = 1
  ELSE response.statusCode # 0

\* C4: with no custom error handler, or one that returns normally, no
\* exception leaves the handler and every finished invocation has given a
\* well-formed response or, on an open event stream, a well-formed terminal
\* event.
C4_NoFaultEscapes ==
  opts.onError.kind # "throws" =>
    /\ pc # "escaped" /\ escaped = NoError
    /\ pc = "done" => WellFormedResponse

\* the status the client is given
FinalStatus ==
  IF opts.streaming
  THEN IF preludes = <<>> THEN 0 ELSE preludes[Len(preludes)].statusCode
  ELSE response.statusCode

\* the body the client is given
FinalBody ==
  IF opts.streaming
  THEN IF written = <<>> THEN "" ELSE written[Len(written)]
  ELSE response.body

\* C5: if the custom error handler itself throws while handling a failure,
\* the invocation still ends with status 500 and an error document of status
\* INTERNAL with a generic message; the handler's exception does not escape.
C5_ThrowingHandlerDegrades ==
  (opts.onError.kind = "throws" /\ Called("onError")) =>
    /\ pc = "done" /\ escaped = NoError
    /\ FinalStatus = 500
    /\ FinalBody = "{\"error\":{\"status\":\"INTERNAL\",\"message\":\"Internal Error\"}}"

\* C6: if the context provider fails, neither flow.run nor flow.stream is
\* called in that invocation; the Action is called only after the configured
\* provider has completed successfully.
C6_ProviderGuardsAction ==
  /\ ~pResult.ok => ~ActionCalled
  /\ (ActionCalled /\ opts.contextProvider.kind # "undefined") =>
       /\ pResult.ok
       /\ \E i, j \in 1..Len(calls) :
            i < j /\ calls[i] = "contextProvider" /\ calls[j] \in {"flow.run", "flow.stream"}

C6_Witness ==
  /\ pc = "done" /\ opts.streaming /\ clientWantsStreaming(event)
  /\ Called("contextProvider") /\ ~pResult.ok
  /\ FinalStatus \in {401, 403}

\* the body of the event is present and its text is not JSON
MalformedBody ==
  /\ event.body \notin {Undefined, ""}
  /\ ~JSONparse(IF event.isBase64Encoded THEN Base64Decode(event.body)
               ELSE event.body).ok

\* C7: a request body that is not parseable as JSON fails with
\* INVALID_ARGUMENT, status 400 under the default mapping, and neither the
\* context provider nor the Action is invoked for that request.
C7_MalformedBodyRejected ==
  (MalformedBody /\ Called("parseRequestBody")) =>
    /\ caught.status = "INVALID_ARGUMENT"
    /\ ~Called("contextProvider") /\ ~ActionCalled
    /\ (pc = "done" /\ opts.onError.kind = "undefined") =>
         /\ FinalStatus = 400
         /\ FinalBody = "{\"error\":{\"status\":\"INVALID_ARGUMENT\",\"message\":"
                          \o "\"Invalid JSON in request body\"}}"

C7_Witness ==
  /\ MalformedBody /\ event.isBase64Encoded
  /\ pc = "done" /\ opts.onError.kind = "undefined"
  /\ opts.contextProvider.kind # "undefined"
  /\ FinalStatus = 400

\* C8: for a request whose method is OPTIONS neither body parsing, nor the
\* context provider, nor the Action is executed, in both handlers; it is
\* answered with the CORS headers alone.
C8_PreflightShortCircuit ==
  event.method = "OPTIONS" =>
    /\ calls = <<>> /\ pc = "done"
    /\ IF opts.streaming
       THEN /\ preludes = <<[statusCode |-> 204, headers |-> corsHeaders]>>
            /\ written = <<>> /\ ended = 1
       ELSE response = [statusCode |-> 204, headers |-> corsHeaders, body |-> ""]

C8_Witness ==
  /\ event.method = "OPTIONS" /\ pc = "done"
  /\ event.body = "{bad"
  /\ opts.contextProvider.kind # "undefined"
  /\ ~opts.streaming

\* the transport-derived metadata of the invocation
TransportMetadata ==
  [event |-> [requestContext |-> [method |-> event.method], headers |-> event.headers],
   context |-> [functionName |-> lambdaContext.functionName,
                awsRequestId |-> lambdaContext.awsRequestId]]

\* C9: the context passed to the Action always contains the lambda entry
\* exactly as derived from the event and the Lambda context, whatever the
\* context provider returns.
C9_MetadataNeverOverwritten ==
  ActionCalled =>
    /\ "lambda" \in DOMAIN passedContext
    /\ passedContext["lambda"] = TransportMetadata

\* the first provider of the list that succeeds on this request, 0 if none
FirstSuccess(n) ==
  IF \E i \in 1..n : pOut[i].ok
  THEN CHOOSE i \in 1..n : pOut[i].ok /\ \A j \in 1..(i - 1) : ~pOut[j].ok
  ELSE 0

\* C10: anyOf(p1..pn) runs the providers in the given order and succeeds
\* with the context of the first provider that succeeds; no provider after
\* it is executed.
C10_AnyOfFirstSuccess ==
  (opts.contextProvider.kind = "anyOf" /\ Called("contextProvider")) =>
    LET n == Len(opts.contextProvider.ps)
        k == FirstSuccess(n)
    IN /\ \A i \in 1..Len(pTrace) : pTrace[i] = i
       /\ k # 0 => /\ pResult.ok
                   /\ pResult.context = pOut[k].context
                   /\ Len(pTrace) = k

C10_Witness ==
  /\ opts.contextProvider.kind = "anyOf" /\ Called("contextProvider")
  /\ Len(opts.contextProvider.ps) = 2
  /\ ~pOut[1].ok /\ pOut[2].ok
  /\ pResult.ok /\ pTrace = <<1, 2>>

C10_WitnessShortCircuit ==
  /\ opts.contextProvider.kind = "anyOf" /\ Called("contextProvider")
  /\ Len(opts.contextProvider.ps) = 2
  /\ pOut[1].ok /\ pOut[2].ok /\ pOut[1].context # pOut[2].context
  /\ pTrace = <<1>>

\* the evaluation of the configured combinator has completed
CombinatorRan(kind) == opts.contextProvider.kind = kind /\ Called("contextProvider")

\* C11: when every provider of anyOf(p1..pn), n >= 1, fails, anyOf fails with
\* the error of the last provider pn, its taxonomy code and its message, not
\* with the error of an earlier provider.
C11_AnyOfLastError ==
  LET n == Len(opts.contextProvider.ps)
  IN (CombinatorRan("anyOf") /\ n >= 1 /\ \A i \in 1..n : ~pOut[i].ok) =>
       /\ ~pResult.ok
       /\ pResult.error.status = pOut[n].error.status
       /\ pResult.error.message = pOut[n].error.message
       /\ caught = pOut[n].error

C11_Witness ==
  /\ CombinatorRan("anyOf") /\ Len(opts.contextProvider.ps) = 2
  /\ ~pOut[1].ok /\ ~pOut[2].ok
  /\ pOut[1].error.status # pOut[2].error.status
  /\ pOut[1].error.message # pOut[2].error.message
  /\ ~pResult.ok /\ pTrace = <<1, 2>>

\* the first provider of the list that fails on this request, 0 if none
FirstFailure(n) ==
  IF \E i \in 1..n : ~pOut[i].ok
  THEN CHOOSE i \in 1..n : ~pOut[i].ok /\ \A j \in 1..(i - 1) : pOut[j].ok
  ELSE 0

\* C12: allOf(p1..pn) runs the providers in the given order and, when
\* provider pi fails, fails at once with pi's error: no provider pj with
\* j > i is executed.
C12_AllOfFailsFast ==
  CombinatorRan("allOf") =>
    LET n == Len(opts.contextProvider.ps)
        k == FirstFailure(n)
    IN /\ \A i \in 1..Len(pTrace) : pTrace[i] = i
       /\ k = 0 => Len(pTrace) = n
       /\ k # 0 => /\ ~pResult.ok
                   /\ pResult.error = pOut[k].error
                   /\ caught = pOut[k].error
                   /\ Len(pTrace) = k

C12_Witness ==
  /\ CombinatorRan("allOf") /\ Len(opts.contextProvider.ps) = 2
  /\ ~pOut[1].ok /\ pOut[2].ok
  /\ ~pResult.ok /\ pTrace = <<1>>

\* the last provider of p1..pn whose context has the key
LastWithKey(n, key) ==
  CHOOSE i \in 1..n :
    /\ key \in DOMAIN pOut[i].context
    /\ \A j \in (i + 1)..n : key \notin DOMAIN pOut[j].context

\* C13: when all providers of allOf(p1..pn) succeed, the resulting context
\* is the left-to-right merge of their contexts: every key a provider
\* returned is present, with the value of the last provider that returned it.
C13_AllOfMerge ==
  LET n == Len(opts.contextProvider.ps)
  IN (CombinatorRan("allOf") /\ \A i \in 1..n : pOut[i].ok) =>
       /\ pResult.ok
       /\ DOMAIN pResult.context = UNION { DOMAIN pOut[i].context : i \in 1..n }
       /\ \A key \in DOMAIN pResult.context :
            pResult.context[key] = pOut[LastWithKey(n, key)].context[key]

C13_Witness ==
  /\ CombinatorRan("allOf") /\ Len(opts.contextProvider.ps) = 2
  /\ pOut[1].ok /\ pOut[2].ok
  /\ "auth" \in DOMAIN pOut[1].context /\ "auth" \in DOMAIN pOut[2].context
  /\ pOut[1].context["auth"] # pOut[2].context["auth"]
  /\ pResult.context["auth"] = [user |-> "p2"]

\* the custom providers called and not yet settled after k logged events
InFlight(trace, k) ==
  { id \in 1..MaxProviders :
      /\ \E a \in 1..k : trace[a] = ProviderEvent("start", id)
      /\ ~\E b \in 1..k : trace[b] = ProviderEvent("settle", id) }

\* C14: within one evaluation of allOf or anyOf the providers are never in
\* flight at the same time and never reordered: provider i+1 is started only
\* after provider i has completed.
C14_ProvidersSequential ==
  (CombinatorRan("allOf") \/ CombinatorRan("anyOf")) =>
    LET trace == pResult.trace
    IN /\ \A k \in 0..Len(trace) : Cardinality(InFlight(trace, k)) <= 1
       /\ InFlight(trace, Len(trace)) = {}
       /\ \A a, b \in 1..Len(pTrace) : a < b => pTrace[a] < pTrace[b]
       /\ \A b \in 1..Len(trace) :
            trace[b].kind = "start" =>
              \A i \in 1..(trace[b].id - 1) :
                \E a \in 1..(b - 1) : trace[a] = ProviderEvent("settle", i)

C14_Witness ==
  /\ CombinatorRan("allOf") \/ CombinatorRan("anyOf")
  /\ pResult.trace = <<ProviderEvent("start", 1), ProviderEvent("settle", 1),
                       ProviderEvent("start", 2), ProviderEvent("settle", 2)>>

\* the request's Accept header declares text/event-stream
AcceptsEventStream ==
  \E name \in {"accept", "Accept"} :
    name \in DOMAIN event.headers /\ event.headers[name] = "text/event-stream"

\* the response was opened as an event stream: status 200 and the content
\* type text/event-stream
AnsweredAsEventStream ==
  /\ preludes # <<>>
  /\ preludes[1].statusCode = 200
  /\ "Content-Type" \in DOMAIN preludes[1].headers
  /\ preludes[1].headers["Content-Type"] = "text/event-stream"

\* the streaming handler has finished a request that is not a preflight
StreamingRequestDone ==
  opts.streaming /\ pc = "done" /\ event.method # "OPTIONS"

\* the one buffered response of the streaming handler: status 200, the CORS
\* headers, the result document as the only write, the stream ended once
BufferedResult ==
  /\ preludes = <<[statusCode |-> 200, headers |-> corsHeaders]>>
  /\ written = <<"{\"result\":" \o TextOf(flowResult) \o "}">>
  /\ ended = 1
  /\ \A i \in 1..Len(written) : ~IsSseRecord(written[i])

C15_WitnessEventStream ==
  /\ StreamingRequestDone /\ "Accept" \in DOMAIN event.headers
  /\ AcceptsEventStream /\ AnsweredAsEventStream
  /\ caught = NoError /\ Len(written) = 3

\* parseRequestBody has run on a plain (not base64) body
BodyParsed == Called("parseRequestBody") /\ ~event.isBase64Encoded

\* parseRequestBody returned the input v
Yields(v) == pc # "failed" /\ input = v

\* C16 as stated: for every input v, the wrapped body {"data": v} and the
\* direct body v both yield v.
C16_WrapUnwrapTransparent ==
  BodyParsed =>
    \A v \in InputValues :
      /\ event.body = JSONstringify(Wrap(v)) => Yields(v)
      /\ event.body = JSONstringify(v) => Yields(v)

\* C16: for every input v the wrapped body {"data": v} yields v, and the
\* direct body v yields v unless v is itself an object with a key data; such
\* a direct body is read as a wrapped one and yields the value of that key.
C16_WrapUnwrap ==
  BodyParsed =>
    \A v \in InputValues :
      /\ event.body = JSONstringify(Wrap(v)) => Yields(v)
      /\ (event.body = JSONstringify(v) /\ ~HasKey(v, "data")) => Yields(v)
      /\ (event.body = JSONstringify(v) /\ HasKey(v, "data")) =>
           Yields(Field(v, "data"))

C16_Witness ==
  /\ BodyParsed /\ event.body = "{\"data\":{}}"
  /\ event.body = JSONstringify(Wrap(JObj(<<>>)))
  /\ Yields(JObj(<<>>))

C16_WitnessDirect ==
  /\ BodyParsed /\ event.body = "\"a\"" /\ Yields(JStr("a"))

\* the Origin header of the request, under either spelling
RequestOrigin ==
  IF "origin" \in DOMAIN event.headers THEN event.headers["origin"]
  ELSE IF "Origin" \in DOMAIN event.headers THEN event.headers["Origin"]
  ELSE Undefined

\* buildCorsHeaders has run with a policy other than cors: false
CorsBuilt == pc = "cors" /\ opts.cors.kind # "false"

\* the policy's origin is a list
ListPolicy == opts.cors.kind = "object" /\ opts.cors.originIsArray

\* C17: buildCorsHeaders with a single-string policy always emits the
\* configured value as Access-Control-Allow-Origin, * when none is configured,
\* whatever the request origin; with a list policy it emits the request's
\* Origin if and only if that origin is a member of the list, and otherwise no
\* Access-Control-Allow-Origin header at all.
C17_OriginResolution ==
  CorsBuilt =>
    LET present == "Access-Control-Allow-Origin" \in DOMAIN corsHeaders
        member == \E i \in 1..Len(opts.cors.originList) :
                    opts.cors.originList[i] = RequestOrigin
    IN /\ ~ListPolicy =>
            /\ present
            /\ corsHeaders["Access-Control-Allow-Origin"] =
                 IF opts.cors.kind = "object" /\ opts.cors.originString # Undefined
                 THEN opts.cors.originString ELSE "*"
       /\ ListPolicy =>
            /\ present <=> member
            /\ present => corsHeaders["Access-Control-Allow-Origin"] = RequestOrigin

C17_Witness ==
  /\ CorsBuilt /\ ListPolicy /\ opts.cors.originList = <<"https://a">>
  /\ RequestOrigin = "https://b"
  /\ "Access-Control-Allow-Origin" \notin DOMAIN corsHeaders

C17_WitnessEcho ==
  /\ CorsBuilt /\ ListPolicy /\ opts.cors.originList = <<"https://b", "https://a">>
  /\ RequestOrigin = "https://a"
  /\ corsHeaders["Access-Control-Allow-Origin"] = "https://a"

\* the headers the CORS protocol defines
CorsHeaderNames ==
  {"Access-Control-Allow-Origin", "Access-Control-Allow-Methods",
   "Access-Control-Allow-Headers", "Access-Control-Expose-Headers",
   "Access-Control-Allow-Credentials", "Access-Control-Max-Age"}

\* the handler answered at once, before the body was parsed
TreatedAsPreflight == pc = "done" /\ calls = <<>>

\* the headers of the response
ResponseHeaders ==
  IF opts.streaming
  THEN IF preludes = <<>> THEN NoFields ELSE preludes[Len(preludes)].headers
  ELSE response.headers

\* the preflight answer has status 204 and no body
PreflightStatusAndBody ==
  /\ FinalStatus = 204
  /\ IF opts.streaming
     THEN Len(preludes) = 1 /\ written = <<>> /\ ended = 1
     ELSE response.body = ""

\* C18: a request is treated as preflight if and only if its method is
\* OPTIONS, and every preflight response has status 204, an empty body and a
\* header set consisting only of CORS (Access-Control-*) headers.
C18_PreflightResponse ==
  pc # "idle" =>
    /\ pc = "done" => (TreatedAsPreflight <=> event.method = "OPTIONS")
    /\ event.method = "OPTIONS" =>
         /\ TreatedAsPreflight
         /\ PreflightStatusAndBody
         /\ DOMAIN ResponseHeaders \subseteq CorsHeaderNames

\* the part of C18 about the method, the status and the body
C18_PreflightButHeaders ==
  pc # "idle" =>
    /\ pc = "done" => (TreatedAsPreflight <=> event.method = "OPTIONS")
    /\ event.method = "OPTIONS" => TreatedAsPreflight /\ PreflightStatusAndBody

\* the invocation was answered with one response of this status and body:
\* the buffered handler's return value; in the streaming handler the response
\* opened once with the status, the body its only write, the stream ended
AnsweredWith(statusCode, body) ==
  IF opts.streaming
  THEN /\ preludes = <<[statusCode |-> statusCode, headers |-> corsHeaders]>>
       /\ written = <<body>>
       /\ ended = 1
  ELSE response = [statusCode |-> statusCode, headers |-> corsHeaders, body |-> body]

\* the catch block has answered a failure
FailureAnswered == pc = "done" /\ caught # NoError

\* the failure happened before the streaming handler opened the response:
\* every failure of the buffered handler; in the streaming handler a malformed
\* body, a rejecting context provider, a rejected flow.run
FailedBeforeOpen ==
  opts.streaming => (~Called("flow.stream") /\ caught # SerializeError)

\* the error document around the custom error handler's message
CustomErrorDocument ==
  "{\"error\":{\"status\":\"INTERNAL\",\"message\":\"" \o opts.onError.message \o "\"}}"

\* C19 as stated: with a custom error handler that returns, every failure is
\* answered with the handler's statusCode and exactly the INTERNAL document
\* with the handler's message.
C19_EveryFailureCustom ==
  (FailureAnswered /\ opts.onError.kind = "returns") =>
    AnsweredWith(opts.onError.statusCode, CustomErrorDocument)

\* C19: with a custom error handler that returns {statusCode, message}, every
\* failure that happens before the response was opened (malformed body,
\* context-provider failure, Action failure) is answered with that statusCode
\* and exactly the body {"error":{"status":"INTERNAL","message":message}},
\* whatever the failure's own taxonomy code; the default mapping is not used.
C19_CustomErrorOverrides ==
  (FailureAnswered /\ opts.onError.kind = "returns" /\ FailedBeforeOpen) =>
    /\ AnsweredWith(opts.onError.statusCode, CustomErrorDocument)
    /\ Called("onError")

C19_Witness ==
  /\ FailureAnswered /\ opts.onError.kind = "returns" /\ FailedBeforeOpen
  /\ caught.status = "PERMISSION_DENIED"
  /\ AnsweredWith(418, "{\"error\":{\"status\":\"INTERNAL\",\"message\":\"custom\"}}")

\* the HTTP status declared for a taxonomy code, 500 for a failure without one
DeclaredStatus(status) ==
  CASE status = "INVALID_ARGUMENT" -> 400
    [] status = "UNAUTHENTICATED" -> 401
    [] status = "PERMISSION_DENIED" -> 403
    [] status = "NOT_FOUND" -> 404
    [] OTHER -> 500

\* the default error document of a failure
DefaultErrorDocument ==
  IF caught.status # Undefined
  THEN "{\"error\":{\"status\":\"" \o caught.status \o "\",\"message\":\""
         \o caught.message \o "\"}}"
  ELSE "{\"error\":{\"status\":\"INTERNAL\",\"message\":\"Internal Error\"}}"

\* C20 as stated: with no custom error handler, every failure is answered
\* with the status declared for its taxonomy code and an error document of
\* that code, 500 and INTERNAL for a failure without a code.
C20_EveryFailureMapped ==
  (FailureAnswered /\ opts.onError.kind = "undefined") =>
    AnsweredWith(DeclaredStatus(caught.status), DefaultErrorDocument)

\* C20: with no custom error handler, a failure that happens before the
\* response was opened and carries a taxonomy code is answered with the status
\* declared for the code (InvalidArgument 400, Unauthenticated 401,
\* PermissionDenied 403, NotFound 404) and an error document whose status is
\* that code; a failure without a code with 500 and error status INTERNAL.
C20_DefaultMapping ==
  (FailureAnswered /\ opts.onError.kind = "undefined" /\ FailedBeforeOpen) =>
    /\ AnsweredWith(DeclaredStatus(caught.status), DefaultErrorDocument)
    /\ ~Called("onError")

C20_Witness ==
  /\ FailureAnswered /\ opts.onError.kind = "undefined" /\ FailedBeforeOpen
  /\ caught = UserFacingError("NOT_FOUND", "no such joke")
  /\ AnsweredWith(404, "{\"error\":{\"status\":\"NOT_FOUND\",\"message\":\"no such joke\"}}")

C20_WitnessNoCode ==
  /\ FailureAnswered /\ opts.onError.kind = "undefined" /\ FailedBeforeOpen
  /\ caught = PlainError("boom")
  /\ AnsweredWith(500, "{\"error\":{\"status\":\"INTERNAL\",\"message\":\"Internal Error\"}}")

\* the error document of a failure without a taxonomy code
GenericErrorDocument ==
  "{\"error\":{\"status\":\"INTERNAL\",\"message\":\"Internal Error\"}}"

\* the default catch block has answered
DefaultAnswered == FailureAnswered /\ opts.onError.kind = "undefined"

\* C21: with no custom error handler, the error document of a failure that
\* carries no taxonomy code does not depend on the failure's message or
\* stack: every such failure gets the same response; and the document has
\* details only when the failure supplied structured details.
C21_NoInternalDetail ==
  DefaultAnswered =>
    /\ caught.status = Undefined => AnsweredWith(500, GenericErrorDocument)
    /\ (caught.status # Undefined /\ caught.details = JUndefined) =>
         FinalBody = "{\"error\":{\"status\":\"" \o caught.status
                       \o "\",\"message\":\"" \o caught.message \o "\"}}"

C21_Witness ==
  /\ DefaultAnswered
  /\ caught = PlainError("connect ECONNREFUSED 10.0.0.7:5432")
  /\ AnsweredWith(500, GenericErrorDocument)

C21_WitnessStack ==
  /\ DefaultAnswered /\ caught.status = Undefined /\ caught.stack # ""
  /\ AnsweredWith(500, GenericErrorDocument)

C21_WitnessDetails ==
  /\ DefaultAnswered /\ caught.details # JUndefined /\ caught.status # Undefined
  /\ FinalBody = "{\"error\":{\"status\":\"INVALID_ARGUMENT\",\"message\":\"bad subject\",\"details\":{\"field\":\"subject\"}}}"

\* a chunk event is written in this step
ChunkWritten == Len(produced') = Len(produced) + 1 /\ Len(written') = Len(written) + 1

\* C22: in a streaming invocation the handler is the single writer of the
\* response stream and the writes are strictly ordered: the event of chunk
\* n+1 is written only after the write of the event of chunk n was fully
\* flushed to the transport.
C22_WriteAfterFlush ==
  [][(ChunkWritten /\ Len(produced) >= 1) => transport.flushed = Len(written)]_vars

\* the part of C22 about the order: the chunk events are in the stream in the
\* order the chunks were produced
C22_WritesInOrder ==
  StreamOpened =>
    \A i \in 1..Len(produced) :
      i <= Len(written) => written[i] = "data: {\"message\":" \o TextOf(produced[i]) \o "}\n\n"

\* C23: once the transport has reported that the client disconnected during
\* a streaming invocation, the handler pulls no further chunk from the
\* Action's sequence and writes nothing more to the response stream.
C23_StopsOnDisconnect ==
  [][~transport.connected => (produced' = produced /\ written' = written)]_vars

\* a call was made in the invocation with locals l
CalledIn(l, name) == \E i \in 1..Len(l.calls) : l.calls[i] = name

\* what the invocation with locals l has computed and answered so far is what
\* its own event, its own provider and Action outcomes and the configuration
\* determine
OwnOutcome(l) ==
  /\ l.pc # "idle" =>
       l.corsHeaders = buildCorsHeaders(opts.cors, getRequestOrigin(l.event))
  /\ (CalledIn(l, "parseRequestBody") /\ parseRequestBody(l.event).ok) =>
       l.input = parseRequestBody(l.event).value
  /\ (CalledIn(l, "parseRequestBody") /\ ~parseRequestBody(l.event).ok) =>
       l.caught = parseRequestBody(l.event).error
  /\ CalledIn(l, "contextProvider") =>
       l.pResult = CallProvider(opts.contextProvider, l.pOut, <<>>)
  /\ (l.pc = "done" /\ ~opts.streaming) =>
       l.response =
         [statusCode |-> IF l.event.method = "OPTIONS" THEN 204
                         ELSE IF l.caught # NoError
                              THEN ErrorStatusCode(opts.onError, l.caught) ELSE 200,
          headers |-> buildCorsHeaders(opts.cors, getRequestOrigin(l.event)),
          body |-> IF l.event.method = "OPTIONS" THEN ""
                   ELSE IF l.caught # NoError THEN ErrorBody(opts.onError, l.caught)
                        ELSE JSONstringify(ResultDoc(l.flowResult))]
  /\ (l.pc = "done" /\ opts.streaming) =>
       /\ l.preludes # <<>>
       /\ \A i \in 1..Len(l.preludes) :
            \A h \in DOMAIN buildCorsHeaders(opts.cors, getRequestOrigin(l.event)) :
              /\ h \in DOMAIN l.preludes[i].headers
              /\ h # "Content-Type" =>
                   l.preludes[i].headers[h] =
                     buildCorsHeaders(opts.cors, getRequestOrigin(l.event))[h]
       /\ l.event.method # "OPTIONS" =>
            l.written[Len(l.written)] \in
              { IF l.caught # NoError THEN ErrorBody(opts.onError, l.caught)
                ELSE JSONstringify(ResultDoc(l.flowResult)),
                SseEvent(JSONstringify(ResultDoc(l.flowResult))) }

C25_SelfDelimitedRecords ==
  StreamOpened => \A i \in 1..Len(written) : IsSseRecord(written[i])

\* the same for the invocations in which nothing failed after the stream
\* was opened
C25_RecordsUnlessFailed ==
  (StreamOpened /\ ~(FailedAfterOpen /\ pc = "done")) =>
    \A i \in 1..Len(written) : IsSseRecord(written[i])

\* the context provider has been called with requestData
ProviderCalled == Called("contextProvider")

\* the headers of the event in its iteration order, those with a value
Listed == SelectSeq(ObjectEntries(event), LAMBDA e : e.value # Undefined)

\* two header names that differ in case only
SameName(a, b) ==
  \/ a = b
  \/ {a, b} \subseteq {"X-API-Key", "x-api-key", "X-Api-Key"}
  \/ {a, b} \subseteq {"Authorization", "authorization", "AUTHORIZATION"}
  \/ {a, b} \subseteq {"Accept", "accept"}
  \/ {a, b} \subseteq {"Origin", "origin"}

\* C26: the headers a context provider is given have lower-cased names only,
\* one entry for every header the event lists under any casing, and its
\* value is the one the event lists last under any of the casings
C26_HeadersNormalized ==
  ProviderCalled =>
    /\ DOMAIN requestData.headers \subseteq {"x-api-key", "authorization", "accept", "origin"}
    /\ \A name \in DOMAIN requestData.headers :
         \E i \in 1..Len(Listed) :
           /\ SameName(Listed[i].key, name)
           /\ requestData.headers[name] = Listed[i].value
           /\ \A j \in (i + 1)..Len(Listed) : ~SameName(Listed[j].key, name)
    /\ \A i \in 1..Len(Listed) :
         \E name \in DOMAIN requestData.headers : SameName(Listed[i].key, name)

\* a provider was given one x-api-key entry for an event that lists the
\* header under two casings with different values
C26_Witness ==
  /\ ProviderCalled
  /\ Len(Listed) = 2
  /\ SameName(Listed[1].key, "x-api-key") /\ SameName(Listed[2].key, "x-api-key")
  /\ Listed[1].value # Listed[2].value
  /\ DOMAIN requestData.headers = {"x-api-key"}
  /\ requestData.headers["x-api-key"] = Listed[2].value

\* the built-in provider of this kind has been called
BuiltinCalled(kind) == ProviderCalled /\ opts.contextProvider.kind = kind

\* the value the event gives the header name under any casing (the last one
\* it lists), Undefined if it lists none
HeaderValue(name) ==
  LET given == SelectSeq(Listed, LAMBDA e : SameName(e.key, name))
  IN IF given = <<>> THEN Undefined ELSE given[Len(given)].value

\* the header is there and not empty
Present(name) == HeaderValue(name) \notin {Undefined, ""}

\* the provider failed with this status, and the handler caught the failure
FailedWith(status) ==
  ~pResult.ok /\ pResult.error.status = status /\ caught = pResult.error /\ pc = "failed"

C27_WitnessDenied ==
  /\ BuiltinCalled("requireHeader")
  /\ opts.contextProvider.expected = "k1"
  /\ HeaderValue("x-api-key") = "k2"
  /\ FailedWith("PERMISSION_DENIED")

\* the validator callback has been called with exactly these arguments
ValidatorCalledWith(args) == pTrace = [i \in DOMAIN args |-> ValidatorCall(args[i])]

\* C28: requireApiKey(header, expected) succeeds only when the header
\* carries a key equal to the literal or accepted by the validator, and then
\* gives the context {auth: {apiKey: <header value>}}; a missing header fails
\* with UNAUTHENTICATED, a key other than the literal with PERMISSION_DENIED,
\* a key the validator rejects with what the validator threw
C28_RequireApiKey ==
  BuiltinCalled("requireApiKey") =>
    LET name == opts.contextProvider.headerName
        expected == opts.contextProvider.expected
        apiKey == HeaderValue(name)
        validator == pOut[1]
        accepted == IF expected = "<function>" THEN validator.ok ELSE apiKey = expected
    IN /\ pResult.ok <=> (Present(name) /\ accepted)
       /\ pResult.ok =>
            /\ pResult.context = [k \in {"auth"} |-> [apiKey |-> apiKey]]
            /\ actionContext["auth"] = [apiKey |-> apiKey]
            /\ pc = "authorized"
       /\ ~Present(name) => (FailedWith("UNAUTHENTICATED") /\ ValidatorCalledWith(<<>>))
       /\ (Present(name) /\ expected # "<function>" /\ apiKey # expected) =>
            (FailedWith("PERMISSION_DENIED") /\ ValidatorCalledWith(<<>>))
       /\ (Present(name) /\ expected = "<function>") =>
            /\ ValidatorCalledWith(<<apiKey>>)
            /\ ~validator.ok =>
                 (~pResult.ok /\ pResult.error = validator.error /\ caught = validator.error)

\* a key sent as x-api-key was accepted by the validator of
\* requireApiKey("X-Api-Key", validator)
C28_Witness ==
  /\ BuiltinCalled("requireApiKey")
  /\ opts.contextProvider.expected = "<function>"
  /\ DOMAIN event.headers = {"x-api-key"}
  /\ pResult.ok
  /\ actionContext["auth"] = [apiKey |-> "k2"]

\* the validator rejected the key with an error of its own
C28_WitnessRejected ==
  /\ BuiltinCalled("requireApiKey")
  /\ ValidatorCalledWith(<<"k1">>)
  /\ caught = PlainError("validator down")

\* the literal key was wrong
C28_WitnessDenied ==
  /\ BuiltinCalled("requireApiKey")
  /\ opts.contextProvider.expected = "k1"
  /\ HeaderValue("x-api-key") = "k2"
  /\ FailedWith("PERMISSION_DENIED")

\* the Authorization header of the event has the form Bearer <token>, the
\* scheme in any case, with the token t1
BearerT1 == HeaderValue("authorization") \in {"Bearer t1", "bearer  t1"}

\* C29: requireBearerToken(validate) fails with UNAUTHENTICATED, validate
\* not called, when the Authorization header is missing or not of the form
\* Bearer <token>; otherwise validate is called once with the token alone
\* and the provider's outcome is validate's: its context or its failure
C29_RequireBearerToken ==
  BuiltinCalled("requireBearerToken") =>
    LET validate == pOut[1]
    IN /\ ~BearerT1 => (FailedWith("UNAUTHENTICATED") /\ ValidatorCalledWith(<<>>))
       /\ BearerT1 =>
            /\ ValidatorCalledWith(<<"t1">>)
            /\ pResult.ok = validate.ok
            /\ validate.ok =>
                 /\ pResult.context = validate.context
                 /\ actionContext["auth"] = validate.context["auth"]
                 /\ pc = "authorized"
            /\ ~validate.ok =>
                 (pResult.error = validate.error /\ caught = validate.error /\ pc = "failed")

\* a token sent as "authorization: bearer  t1" was validated and gave the
\* validator's context
C29_Witness ==
  /\ BuiltinCalled("requireBearerToken")
  /\ HeaderValue("authorization") = "bearer  t1"
  /\ ValidatorCalledWith(<<"t1">>)
  /\ actionContext["auth"] = [token |-> "t1"]

\* a Basic credential was refused without asking the validator
C29_WitnessBasic ==
  /\ BuiltinCalled("requireBearerToken")
  /\ HeaderValue("authorization") = "Basic t1"
  /\ FailedWith("UNAUTHENTICATED")
  /\ ValidatorCalledWith(<<>>)

\* the validator refused the token
C29_WitnessRefused ==
  /\ BuiltinCalled("requireBearerToken")
  /\ BearerT1
  /\ caught = UserFacingError("PERMISSION_DENIED", "revoked")

\* the configured lists of the model written out as header values
Listing(items) ==
  CASE items = <<"GET">> -> "GET"
    [] items = <<"X-Api-Key", "Content-Type">> -> "X-Api-Key, Content-Type"
    [] items = <<"X-Request-Id">> -> "X-Request-Id"
    [] OTHER -> ""

\* C30: with CORS enabled, buildCorsHeaders emits the configured methods,
\* allowed headers, exposed headers, credentials flag and max-age verbatim,
\* and for those left unconfigured the defaults: methods POST, OPTIONS,
\* allowed headers Content-Type, Authorization, no credentials header,
\* max-age 86400
C30_CorsSettings ==
  CorsBuilt =>
    LET c == opts.cors
        h == corsHeaders
    IN /\ h["Access-Control-Allow-Methods"] =
            IF c.methods.defined THEN Listing(c.methods.items) ELSE "POST, OPTIONS"
       /\ h["Access-Control-Allow-Headers"] =
            IF c.allowedHeaders.defined THEN Listing(c.allowedHeaders.items)
            ELSE "Content-Type, Authorization"
       /\ "Access-Control-Expose-Headers" \in DOMAIN h
            <=> (c.exposedHeaders.defined /\ c.exposedHeaders.items # <<>>)
       /\ "Access-Control-Expose-Headers" \in DOMAIN h
            => h["Access-Control-Expose-Headers"] = Listing(c.exposedHeaders.items)
       /\ "Access-Control-Allow-Credentials" \in DOMAIN h <=> c.credentials
       /\ c.credentials => h["Access-Control-Allow-Credentials"] = "true"
       /\ h["Access-Control-Max-Age"] =
            IF ~c.maxAge.defined THEN "86400"
            ELSE IF c.maxAge.n = 0 THEN "0" ELSE "600"

\* every setting configured, the max-age to 0
C30_Witness ==
  /\ CorsBuilt
  /\ opts.cors.methods.defined /\ opts.cors.allowedHeaders.defined
  /\ opts.cors.exposedHeaders = Items(<<"X-Request-Id">>)
  /\ opts.cors.credentials
  /\ opts.cors.maxAge = Number(0)
  /\ corsHeaders["Access-Control-Max-Age"] = "0"
  /\ corsHeaders["Access-Control-Allow-Headers"] = "X-Api-Key, Content-Type"

\* nothing configured: cors left out
C30_WitnessDefaults ==
  /\ CorsBuilt
  /\ opts.cors.kind = "undefined"
  /\ corsHeaders["Access-Control-Allow-Methods"] = "POST, OPTIONS"
  /\ corsHeaders["Access-Control-Max-Age"] = "86400"

\* the request has no body, or an empty one
EmptyBody == event.body \in {Undefined, ""}

\* the failure parseRequestBody throws
ParseFailure == UserFacingError("INVALID_ARGUMENT", "Invalid JSON in request body")

\* C31: a request with an empty or absent body never fails in parsing; the
\* input the context provider and the Action are given is the empty object,
\* and the invocation goes on to the provider and the Action
C31_EmptyBodyIsEmptyInput ==
  (EmptyBody /\ Called("parseRequestBody")) =>
    /\ input = JObj(<<>>)
    /\ caught # ParseFailure
    /\ (pc = "failed" => (ProviderCalled \/ ActionCalled))
    /\ (ProviderCalled => requestData.input = JObj(<<>>))

\* the Action ran for a request without a body, after the provider was
\* given the empty object
C31_Witness ==
  /\ event.body = Undefined
  /\ ProviderCalled
  /\ requestData.input = JObj(<<>>)
  /\ ActionCalled
  /\ input = JObj(<<>>)

\* the same for a body that is the empty string
C31_WitnessEmptyString ==
  /\ event.body = ""
  /\ ActionCalled
  /\ input = JObj(<<>>)

\* C32: the handler of a non-streaming endpoint has the properties flow,
\* flowName, run and stream; run(input) runs the flow and resolves to its
\* result, stream(input) gives the flow's chunk stream and output, so a
\* direct call never throws and reaches the flow
C32_TestingProperties ==
  \A name \in {"run", "stream"} :
    Called("handler." \o name) =>
      /\ {"flow", "flowName", name} \subseteq AttachedProperties
      /\ escaped = NoError
      /\ Called("flow." \o name)

\* how many times the invocation has invoked the Action
ActionCalls ==
  Cardinality({ i \in 1..Len(calls) : calls[i] \in {"flow.run", "flow.stream"} })

\* C33: the Action is invoked at most once per invocation, on failure paths
\* too: the buffered handler calls flow.run at most once and never
\* flow.stream; the streaming handler calls flow.stream in event-stream mode
\* and flow.run in the buffered fallback, never both and never twice; a
\* request that was answered without a failure and is no preflight had its
\* Action invoked exactly once
C33_ActionAtMostOnce ==
  /\ ActionCalls <= 1
  /\ Called("flow.stream") => (opts.streaming /\ AcceptsEventStream)
  /\ Called("flow.run") => ~(opts.streaming /\ AcceptsEventStream)
  /\ AnsweredAsEventStream => Called("flow.stream")
  /\ (pc = "done" /\ caught = NoError /\ event.method # "OPTIONS") => ActionCalls = 1

\* the event stream failed and the catch block has answered: flow.stream
\* was the only call of the Action
C33_Witness ==
  /\ opts.streaming
  /\ pc = "done"
  /\ caught \in FlowErrors
  /\ Called("flow.stream")
  /\ ActionCalls = 1

\* the buffered fallback of the streaming handler ran flow.run once
C33_WitnessFallback ==
  /\ opts.streaming
  /\ pc = "done"
  /\ Called("flow.run")
  /\ ActionCalls = 1

\* the invocation of the streaming handler is over
StreamingInvocationOver == opts.streaming /\ pc \in {"done", "escaped"}

\* C34: every invocation of the streaming handler, on every path, ends the
\* response stream exactly once
C34_EndedExactlyOnce ==
  /\ opts.streaming => ended <= 1
  /\ StreamingInvocationOver => ended = 1

\* the streaming handler never ends the response stream twice, and an
\* invocation its catch block answered has ended it
C34_EndedUnlessEscaped ==
  /\ opts.streaming => ended <= 1
  /\ (opts.streaming /\ pc = "done") => ended = 1

\* the invocation failed before the Action was reached: a malformed body or
\* a rejecting context provider
FailedBeforeAction == caught # NoError /\ ~ActionCalled

\* the status and the document the configured mapping gives the caught failure
MappedStatus ==
  IF opts.onError.kind = "returns" THEN opts.onError.statusCode
  ELSE DeclaredStatus(caught.status)

MappedDocument ==
  IF opts.onError.kind = "returns" THEN CustomErrorDocument ELSE DefaultErrorDocument

\* C35: in the streaming handler a failure that occurs before any response
\* has been opened (malformed body, context-provider failure) opens the
\* response exactly once, with the failure's mapped status (400, 401, 403 or
\* 500 under the default mapping) and the error document as its only body;
\* it is not reported with status 200
C35_EarlyFailureReported ==
  (opts.streaming /\ FailedBeforeAction /\ pc \in {"done", "escaped"}) =>
    /\ AnsweredWith(MappedStatus, MappedDocument)
    /\ MappedStatus # 200
    /\ opts.onError.kind = "undefined" => MappedStatus \in {400, 401, 403, 500}

\* the same for the invocations the catch block answered
C35_EarlyFailureAnswered ==
  (opts.streaming /\ FailedBeforeAction /\ pc = "done") =>
    /\ AnsweredWith(MappedStatus, MappedDocument)
    /\ MappedStatus # 200
    /\ opts.onError.kind = "undefined" => MappedStatus \in {400, 401, 403, 500}

\* the invocation is over: the handler has answered or its promise rejected
InvocationOver == pc \in {"done", "escaped"}

\* what the buffered handler gives for the configuration, the request, the
\* provider behaviour and the Action behaviour of this invocation
BufferedAnswer ==
  BufferedHandler(opts, event, pOut, ActionCalled /\ flowResult = JNull, caught,
                  flowResult)

\* the streaming handler gave the client this response and nothing else
StreamGave(answer) ==
  IF answer.escaped
  THEN pc = "escaped" /\ preludes = <<>> /\ written = <<>>
  ELSE /\ pc = "done"
       /\ preludes = <<[statusCode |-> answer.response.statusCode,
                        headers |-> answer.response.headers]>>
       /\ written = IF answer.response.body = "" THEN <<>> ELSE <<answer.response.body>>
       /\ ended = 1

\* the buffered handler of the model gives what BufferedHandler computes
BufferedHandlerAgrees ==
  (~opts.streaming /\ InvocationOver) =>
    IF BufferedAnswer.escaped THEN pc = "escaped"
    ELSE pc = "done" /\ response = BufferedAnswer.response

\* C36: for the same configuration, Action behaviour and request, the
\* streaming handler invoked without Accept: text/event-stream gives the
\* response the buffered handler gives - same status, headers and body - on
\* every path: preflight, success, parse, provider and Action failure
C36_FallbackEqualsBuffered ==
  (opts.streaming /\ ~AcceptsEventStream /\ InvocationOver) => StreamGave(BufferedAnswer)

\* the same on the paths where the result document can be serialised
C36_FallbackEqualsBufferedSerialisable ==
  (opts.streaming /\ ~AcceptsEventStream /\ InvocationOver /\ caught # SerializeError)
    => StreamGave(BufferedAnswer)

\* the configured provider is this combinator over no providers, and has
\* been called
EmptyCombinatorCalled(kind) ==
  /\ ProviderCalled
  /\ opts.contextProvider.kind = kind
  /\ opts.contextProvider.ps = <<>>

\* C37: over an empty provider list allOf() succeeds with the empty context
\* and anyOf() fails with an UNAUTHENTICATED error, for every request
C37_EmptyCombinators ==
  /\ EmptyCombinatorCalled("allOf") =>
       /\ pResult.ok
       /\ pResult.context = NoFields
       /\ actionContext = LambdaActionContext(event, lambdaContext)
  /\ EmptyCombinatorCalled("anyOf") =>
       /\ ~pResult.ok
       /\ pResult.error = UserFacingError("UNAUTHENTICATED", "Unauthorized")
       /\ caught = pResult.error
       /\ ~ActionCalled

\* anyOf() refused a request and the handler answered 401
C37_Witness ==
  /\ EmptyCombinatorCalled("anyOf")
  /\ pc = "done"
  /\ opts.onError.kind = "undefined"
  /\ FinalStatus = 401

\* allOf() let a request through to the Action
C37_WitnessAllOf ==
  /\ EmptyCombinatorCalled("allOf")
  /\ ActionCalled

\* the providers of a combinator of this kind written as one flat list,
\* combinators of the same kind inside it replaced by their providers
RECURSIVE FlatList(_, _)
FlatList(kind, p) ==
  IF p.kind # kind THEN <<p>>
  ELSE IF p.ps = <<>> THEN <<>>
  ELSE FlatList(kind, p.ps[1]) \o FlatList(kind, [p EXCEPT !.ps = Tail(p.ps)])

\* the flat form of the configured provider: the single provider itself, or
\* the combinator over the flat list
FlatProvider ==
  LET list == FlatList(opts.contextProvider.kind, opts.contextProvider)
  IN IF Len(list) = 1 THEN list[1]
     ELSE Provider(opts.contextProvider.kind, 0, list)

\* C38: a combinator nested in a combinator of its kind, and a combinator
\* over a single provider, behave as the flat form: the same providers are
\* called in the same order and the outcome, context or error, is the same
C38_CombinatorsFlat ==
  (ProviderCalled /\ opts.contextProvider \in NestedConfigs) =>
    LET flat == CallProvider(FlatProvider, pOut, <<>>)
    IN /\ pResult.trace = flat.trace
       /\ pResult.ok = flat.ok
       /\ pResult.ok => pResult.context = flat.context
       /\ ~pResult.ok => pResult.error = flat.error

\* allOf(allOf(p1, p2), p3) merged three contexts, the later ones winning
C38_Witness ==
  /\ ProviderCalled
  /\ opts.contextProvider =
       Provider("allOf", 0, <<Provider("allOf", 0, <<Custom(1), Custom(2)>>), Custom(3)>>)
  /\ pResult.ok
  /\ Len(pResult.trace) = 6
  /\ pOut[1] = Returns(AuthContext(1)) /\ pOut[2] = Returns(SpoofContext)
  /\ pResult.context["auth"] = [user |-> "p3"]

\* anyOf(p1, anyOf(p2, p3)) failed with the error of p3
C38_WitnessAnyOf ==
  /\ ProviderCalled
  /\ opts.contextProvider =
       Provider("anyOf", 0, <<Custom(1), Provider("anyOf", 0, <<Custom(2), Custom(3)>>)>>)
  /\ ~pResult.ok
  /\ pResult.error = UserFacingError("UNAUTHENTICATED", "p3")

\* anyOf(p2) failed with the error of p2
C38_WitnessSingle ==
  /\ ProviderCalled
  /\ opts.contextProvider = Provider("anyOf", 0, <<Custom(2)>>)
  /\ caught = UserFacingError("PERMISSION_DENIED", "p2")

\* the event with its header names in lower case
LowerCased(ev) == [ev EXCEPT !.headers = normalizeHeaders(ObjectEntries(ev))]

\* the event spells Origin and Accept as the handler looks them up
HandledSpelling == DOMAIN event.headers \subseteq {"origin", "Origin", "accept", "Accept"}

\* the CORS headers and the mode of the invocation are those of the event
\* with lower-case header names
SameAsLowerCased ==
  /\ corsHeaders = buildCorsHeaders(opts.cors, getRequestOrigin(LowerCased(event)))
  /\ (opts.streaming /\ ActionCalled) =>
       (AnsweredAsEventStream <=> clientWantsStreaming(LowerCased(event)))

\* C39: CORS origin resolution and the selection of the streaming mode do
\* not depend on the letter case of the names of the Origin and Accept
\* headers: an event gets the response of the event that differs from it only
\* in the case of these names
C39_HeaderNameCaseIgnored == pc # "idle" => SameAsLowerCased

\* the same for the spellings origin, Origin, accept and Accept
C39_TwoSpellingsHandled == (pc # "idle" /\ HandledSpelling) => SameAsLowerCased

\* the request's origin is one of the origins of the configured list
OriginInList ==
  \E i \in 1..Len(opts.cors.originList) : opts.cors.originList[i] = RequestOrigin

\* C40: in the variant of part_001, buildCorsHeaders with a list of allowed
\* origins emits Access-Control-Allow-Origin only for a request whose Origin
\* is in the list, echoing it; for a request whose Origin is absent or not in
\* the list it emits no Access-Control-Allow-Origin header
C40_VariantAllowList ==
  (CorsBuilt /\ ListPolicy) =>
    /\ OriginInList =>
         /\ "Access-Control-Allow-Origin" \in DOMAIN corsHeaders
         /\ corsHeaders["Access-Control-Allow-Origin"] = RequestOrigin
    /\ ~OriginInList => "Access-Control-Allow-Origin" \notin DOMAIN corsHeaders

====
